---- MODULE Spec2Model ----
(***************************************************************************)
(* A model of lmfdb/db_backend.py: one PostgresTable (search table "s",    *)
(* optional extras table "x"), its PostgresStatsTable, and the single      *)
(* psycopg2 connection they share.                                         *)
(*                                                                         *)
(* The database is modelled twice: db is the committed state, wk is what   *)
(* the connection sees inside its open transaction.  conn.commit() copies  *)
(* wk to db, conn.rollback() copies db to wk.  mem is the state of the     *)
(* Python objects (the attributes of PostgresTable and PostgresStatsTable).*)
(*                                                                         *)
(* Every public method is one action.  Its body is the sequence of its     *)
(* statements, threaded through a context record c (db, wk, mem, the       *)
(* number n of statements executed so far, the injected failure point f,   *)
(* the exception err raised so far, the tie-break tb of unordered SQL      *)
(* results and the last return value ret).  A statement whose number is f  *)
(* fails in the engine (DatabaseError); so does a statement whose          *)
(* precondition in the engine is false (missing table, duplicate key...).  *)
(***************************************************************************)
EXTENDS Integers, Sequences, FiniteSets, TLC

VARIABLES db, wk, mem, last, nops

vars == <<db, wk, mem, last, nops>>

(* ------------------------------ bounds -------------------------------- *)

\* greatest number of rows of a table, and of ids handed out
MaxRows == 2
\* values of the data columns k and e are 1..MaxVal
MaxVal == 2
\* number of method calls in one behaviour
MaxOps == 2
\* number of queries translated in one behaviour
MaxParses == 1
\* number of calls of add_column and drop_column in one behaviour
MaxSchemaOps == 3
\* ids of the rows of the tables that are read
MaxReadRows == 3
\* greatest count_cutoff of a table that is read
MaxCutoff == 2
\* greatest limit and offset handed to search
MaxLimit == 3
MaxOffset == 3
\* number of calls of search, distinct and random in one behaviour
MaxReads == 1
\* greatest length of a list projection
MaxListed == 2
\* number of projections resolved in one behaviour
MaxProjections == 1
\* break points are numbers out of 1..MaxBreak
MaxBreak == 3
\* length of a list of break points
MaxBreaks == 4
\* rows of a table whose column is bucketed
MaxBucketRows == 2
\* number of lists of break points split in one behaviour
MaxSplits == 1
\* number of writes to a table in service in one behaviour
MaxServiceWrites == 1
\* number of rewrite calls in one behaviour
MaxRewrites == 1
\* number of create_table, drop_table and create_index calls in one behaviour
MaxCreateOps == 3

Vals == 1..MaxVal
\* Python's None and SQL's NULL
Nil == 0 - 9
\* quick_count's None
NoCount == 0 - 1

(* ---------------------------- physical tables ------------------------- *)

\* A row of a physical table.  The search table has columns id, k (and e
\* while there is no extras table); the extras table has id (and e).
\* A column the table does not have, and an SQL NULL, are both Nil.
Row(i, kv, ev) == [id |-> i, k |-> kv, e |-> ev]

\* A physical table: its rows (a list kept in canonical order, since SQL
\* tables are unordered bags), its columns besides id, the suffix under
\* which its primary-key constraint is named ("none": no primary key), the
\* suffix under which the secondary index on k attached to it is named, and
\* gen, the number of the reload that staged its contents (0: none).
NoTable == [ex |-> FALSE, rows |-> <<>>, cols |-> {}, pkey |-> "none", ix |-> "none", gen |-> 0]

NewTable(c) == [ex |-> TRUE, rows |-> <<>>, cols |-> c, pkey |-> "none", ix |-> "none", gen |-> 0]

RowKey(r) == ((r.id + 10) * 400) + ((r.k + 10) * 20) + (r.e + 10)

RECURSIVE InsertRow(_, _)
InsertRow(rows, r) ==
    IF rows = <<>> THEN <<r>>
    ELSE IF RowKey(r) <= RowKey(Head(rows)) THEN <<r>> \o rows
    ELSE <<Head(rows)>> \o InsertRow(Tail(rows), r)

RECURSIVE Canon(_)
Canon(rows) == IF rows = <<>> THEN <<>> ELSE InsertRow(Canon(Tail(rows)), Head(rows))

Ids(t) == {t.rows[i].id : i \in 1..Len(t.rows)}

UniqueIds(t) == Cardinality(Ids(t)) = Len(t.rows)

NoNullIds(t) == \A i \in 1..Len(t.rows) : t.rows[i].id # Nil

(* ------------------------------ queries ------------------------------- *)

\* The query dictionaries of the model: {} , {"k": v} and {"id": i}.
QAll == [col |-> "none", val |-> 0]
QK(v) == [col |-> "k", val |-> v]
QId(i) == [col |-> "id", val |-> i]

Queries == {QAll} \cup {QK(v) : v \in Vals} \cup {QId(i) : i \in 1..MaxRows}

Matches(q, r) ==
    CASE q.col = "none" -> TRUE
      [] q.col = "k" -> r.k = q.val
      [] q.col = "id" -> r.id = q.val

\* key of a query in the counts table: (cols, values) of _split_dict
CountKeys == {QAll} \cup {QK(v) : v \in Vals}

(* --------------------- the connection and _execute -------------------- *)

TabNames == {"s", "x", "s_tmp", "x_tmp"}

\* physical name of a table of this PostgresTable: base "s" or "x", suffix
\* "" or "_tmp"
TName(base, sfx) == base \o sfx

\* the backup suffix "_old{N}" of _swap_in_tmp
OldSfx(n) == "_old" \o ToString(n)

\* index names share one namespace in the schema
IndexNameUsed(w, sfx) ==
    \/ \E t \in TabNames : w.tab[t].ex /\ w.tab[t].ix = sfx
    \/ \E o \in w.old : o.ix = sfx

\* so do the names of the indexes behind primary-key constraints
PkeyNameUsed(w, base, sfx) ==
    \/ \E a \in {"", "_tmp"} : w.tab[TName(base, a)].ex /\ w.tab[TName(base, a)].pkey = sfx
    \/ \E o \in w.old : o.base = base /\ o.pkey = sfx

\* The context a method runs in.  f = 0: the engine fails no statement.
Ctx(d, w, m, fail, tie) == [db |-> d, wk |-> w, mem |-> m, n |-> 0, f |-> fail, err |-> "none", tb |-> tie, ret |-> 0]

Failed(c) == c.err # "none"

\* _execute without the rollback of its except clause
ExecuteNoRollback(c, ok, w2, commit) ==
    IF Failed(c) THEN c
    ELSE IF c.n + 1 = c.f \/ ~ok
         THEN [c EXCEPT !.n = c.n + 1, !.err = "db"]
         ELSE [c EXCEPT !.n = c.n + 1, !.wk = w2, !.db = IF commit THEN w2 ELSE c.db]

\* PostgresBase._execute: run one statement.  ok is whether the engine
\* accepts it, w2 the connection's view after it.  A DatabaseError rolls the
\* whole open transaction back and is re-raised; success commits when asked.
_execute(c, ok, w2, commit) ==
    IF Failed(c) THEN c
    ELSE IF c.n + 1 = c.f \/ ~ok
         THEN [c EXCEPT !.n = c.n + 1, !.wk = c.db, !.err = "db"]
         ELSE [c EXCEPT !.n = c.n + 1, !.wk = w2, !.db = IF commit THEN w2 ELSE c.db]

\* cur.copy_from / cur.copy_to called on a raw cursor inside try/except:
\* any exception rolls back and is re-raised; never commits
_cursor_copy(c, ok, w2) == _execute(c, ok, w2, FALSE)

\* self.conn.commit()
conn_commit(c) == IF Failed(c) THEN c ELSE [c EXCEPT !.db = c.wk]

\* self.conn.rollback()
conn_rollback(c) == IF Failed(c) THEN c ELSE [c EXCEPT !.wk = c.db]

\* raise ValueError / RuntimeError: a Python exception, no rollback
Raise(c, kind) == IF Failed(c) THEN c ELSE [c EXCEPT !.err = kind]

\* an assignment to attributes of the Python objects
SetMem(c, m2) == IF Failed(c) THEN c ELSE [c EXCEPT !.mem = m2]

Return(c, v) == IF Failed(c) THEN c ELSE [c EXCEPT !.ret = v]

(* ----------------------- catalog flags (meta_tables) ------------------ *)

\* Each step of a method is an operator of the context it starts from:
\* step2(step1(c)) runs step1 and then step2.

StatsFlag(c, v) == SetMem(c, [c.mem EXCEPT !.stats_valid = v])

OrderFlag(c, v) == SetMem(c, [c.mem EXCEPT !.out_of_order = v])

_break_stats(c) ==
    IF Failed(c) \/ ~c.mem.stats_valid THEN c
    ELSE StatsFlag(_execute(c, TRUE, [c.wk EXCEPT !.meta.stats_valid = FALSE], FALSE), FALSE)

_break_order(c) ==
    IF Failed(c) \/ c.mem.out_of_order THEN c
    ELSE OrderFlag(_execute(c, TRUE, [c.wk EXCEPT !.meta.out_of_order = TRUE], FALSE), TRUE)

_set_ordered(c, commit) ==
    IF Failed(c) THEN c
    ELSE OrderFlag(_execute(c, TRUE, [c.wk EXCEPT !.meta.out_of_order = FALSE], commit), FALSE)

(* --------------------------- the counts table ------------------------- *)

\* PostgresStatsTable.quick_count: the cached count of the query, or None
CachedCount(c, q) == Return(c, IF q \in CountKeys THEN c.wk.counts[q] ELSE NoCount)

quick_count(c, q) ==
    IF Failed(c) THEN c
    ELSE CachedCount(_execute(c, TRUE, c.wk, TRUE), q)

\* INSERT INTO / UPDATE {counts}: the row of the query holds the count
WriteCount(c, q, count) == _execute(c, TRUE, [c.wk EXCEPT !.counts[q] = count], TRUE)

_record_count(c, q, count) ==
    IF Failed(c) THEN c
    ELSE WriteCount(quick_count(c, q), q, count)

(* ------------------------------ primary keys -------------------------- *)

\* ALTER TABLE {0} DROP CONSTRAINT {1}: the constraint named after the
\* table's name must exist
DropPkeyOk(w, base, sfx) == w.tab[TName(base, sfx)].ex /\ w.tab[TName(base, sfx)].pkey = sfx

\* ALTER TABLE {0} ADD CONSTRAINT {1} PRIMARY KEY (id): one primary key per
\* table, a free name, and ids that are unique and not null
AddPkeyOk(w, base, sfx) ==
    LET t == w.tab[TName(base, sfx)]
    IN  t.ex /\ t.pkey = "none" /\ ~PkeyNameUsed(w, base, sfx) /\ UniqueIds(t) /\ NoNullIds(t)

\* one ALTER TABLE of _pkey_common, on the table base+sfx
AlterPkey(c, command, base, sfx) ==
    IF Failed(c) THEN c
    ELSE _execute(c,
                  IF command = "drop" THEN DropPkeyOk(c.wk, base, sfx) ELSE AddPkeyOk(c.wk, base, sfx),
                  [c.wk EXCEPT !.tab[TName(base, sfx)].pkey = IF command = "drop" THEN "none" ELSE sfx],
                  FALSE)

Commit(c, commit) == IF commit THEN conn_commit(c) ELSE c

_pkey_common(c, command, sfx, commit) ==
    IF Failed(c) THEN c
    ELSE IF c.mem.extra
         THEN Commit(AlterPkey(AlterPkey(c, command, "s", sfx), command, "x", sfx), commit)
         ELSE Commit(AlterPkey(c, command, "s", sfx), commit)

drop_pkeys(c, sfx, commit) == _pkey_common(c, "drop", sfx, commit)

restore_pkeys(c, sfx, commit) == _pkey_common(c, "add", sfx, commit)

(* ----------------------- secondary indexes (meta_indexes) ------------- *)

\* The model has one secondary index, on column k of the search table; its
\* row in meta_indexes is wk.cat_ix.

\* CREATE INDEX {name+sfx} ON {search_table+sfx} (k)
CreateIndexOk(w, sfx) ==
    LET t == w.tab[TName("s", sfx)]
    IN  t.ex /\ "k" \in t.cols /\ ~IndexNameUsed(w, sfx)

\* the table an index name is attached to
IndexOwner(w, sfx) == {t \in TabNames : w.tab[t].ex /\ w.tab[t].ix = sfx}

WithoutIndex(w, sfx) == [w EXCEPT !.tab = [t \in TabNames |-> IF w.tab[t].ix = sfx THEN [w.tab[t] EXCEPT !.ix = "none"] ELSE w.tab[t]]]

\* CREATE INDEX on base+sfx
ExecCreateIndex(c, sfx, commit) ==
    IF Failed(c) THEN c
    ELSE _execute(c, CreateIndexOk(c.wk, sfx), [c.wk EXCEPT !.tab[TName("s", sfx)].ix = sfx], commit)

\* INSERT INTO / DELETE FROM meta_indexes
ExecCatalogIndex(c, present) ==
    IF Failed(c) THEN c
    ELSE _execute(c, TRUE, [c.wk EXCEPT !.cat_ix = present], FALSE)

\* DROP INDEX
ExecDropIndex(c, sfx) ==
    IF Failed(c) THEN c
    ELSE _execute(c, IndexOwner(c.wk, sfx) # {}, WithoutIndex(c.wk, sfx), FALSE)

\* a SELECT, which _execute commits like any statement
Select(c) == IF Failed(c) THEN c ELSE _execute(c, TRUE, c.wk, TRUE)

CreateIndexBody(c) ==
    IF Failed(c) THEN c
    ELSE IF c.wk.cat_ix THEN Raise(c, "value")
    ELSE conn_commit(ExecCatalogIndex(ExecCreateIndex(c, "", FALSE), TRUE))

create_index(c) ==
    IF Failed(c) THEN c
    ELSE IF "k" \notin c.mem.scols THEN Raise(c, "value")
    ELSE CreateIndexBody(Select(c))

drop_index(c, sfx, permanent) ==
    IF Failed(c) THEN c
    ELSE IF permanent
         THEN conn_commit(ExecDropIndex(ExecCatalogIndex(c, FALSE), sfx))
         ELSE conn_commit(ExecDropIndex(c, sfx))

RestoreIndexBody(c, sfx) ==
    IF Failed(c) THEN c
    ELSE IF ~c.wk.cat_ix THEN Raise(c, "value")
    ELSE ExecCreateIndex(c, sfx, TRUE)

restore_index(c, sfx) ==
    IF Failed(c) THEN c
    ELSE RestoreIndexBody(Select(c), sfx)

\* _indexes_touching: the names recorded in meta_indexes for this table
IndexNames(c) == Return(c, IF c.wk.cat_ix THEN 1 ELSE 0)

_indexes_touching(c) ==
    IF Failed(c) THEN c
    ELSE IndexNames(Select(c))

DropEach(c, sfx) == IF Failed(c) \/ c.ret = 0 THEN c ELSE drop_index(c, sfx, FALSE)

drop_indexes(c, sfx) == DropEach(_indexes_touching(c), sfx)

RestoreEach(c, sfx) == IF Failed(c) \/ c.ret = 0 THEN c ELSE restore_index(c, sfx)

restore_indexes(c, sfx) == RestoreEach(_indexes_touching(c), sfx)

(* --------------------------------- resort ----------------------------- *)

\* the column of ORDER BY self._sort, as a number that sorts ascending
SortKey(sort, r) == IF sort = "desc" THEN 0 - r.k ELSE r.k

\* ROW_NUMBER() OVER (ORDER BY sort) of the i-th row.  The engine orders
\* rows with equal keys arbitrarily: tb picks one of two such orders.
RowNumber(rows, sort, tb, i) ==
    1 + Cardinality({j \in 1..Len(rows) :
            \/ SortKey(sort, rows[j]) < SortKey(sort, rows[i])
            \/ /\ SortKey(sort, rows[j]) = SortKey(sort, rows[i])
               /\ IF tb THEN j < i ELSE j > i})

SetMin(S) == CHOOSE m \in S : \A o \in S : m <= o

SetMax(S) == CHOOSE m \in S : \A o \in S : m >= o

\* UPDATE ... FROM (...) newsort WHERE {0}.id = newsort.id: the new id of a
\* row with the given old id.  With several join rows of that id the engine
\* uses one of them (tb picks); with none the new id stays NULL.
JoinNewId(cands, tb) == IF cands = {} THEN Nil ELSE IF tb THEN SetMin(cands) ELSE SetMax(cands)

\* the search table's newid column after the first UPDATE of resort
NewIdOfSearch(rows, sort, tb, i) ==
    JoinNewId({RowNumber(rows, sort, tb, j) : j \in {j \in 1..Len(rows) : rows[j].id = rows[i].id}}, tb)

\* the rows after DROP COLUMN id and RENAME COLUMN newid TO id
RenumberSearch(rows, sort, tb) ==
    Canon([i \in 1..Len(rows) |-> [rows[i] EXCEPT !.id = NewIdOfSearch(rows, sort, tb, i)]])

RenumberExtras(xrows, srows, sort, tb) ==
    Canon([i \in 1..Len(xrows) |->
        [xrows[i] EXCEPT !.id = JoinNewId({NewIdOfSearch(srows, sort, tb, j) : j \in {j \in 1..Len(srows) : srows[j].id = xrows[i].id}}, tb)]])

\* ALTER TABLE {0} ADD PRIMARY KEY (id) after the id column was replaced
\* (dropping the old id column dropped the old primary key with it)
RekeyOk(rows) ==
    /\ \A i \in 1..Len(rows) : rows[i].id # Nil
    /\ Cardinality({rows[i].id : i \in 1..Len(rows)}) = Len(rows)

\* a statement whose effect on the tables the model does not follow
Statement(c, ok) == _execute(c, ok, c.wk, FALSE)

SetTablePkey(c, t, ok, to) == _execute(c, ok, [c.wk EXCEPT !.tab[t].pkey = to], FALSE)

SetTableRows(c, t, ok, rows) == _execute(c, ok, [c.wk EXCEPT !.tab[t].rows = rows], FALSE)

\* ALTER TABLE ADD COLUMN newid; UPDATE ... SET newid = ...
AddNewId(c, exists) == Statement(Statement(c, exists), TRUE)

\* DROP COLUMN id; RENAME COLUMN newid TO id; ADD PRIMARY KEY (id)
ReplaceId(c, t, rows, sfx) ==
    SetTablePkey(SetTableRows(SetTablePkey(c, t, TRUE, "none"), t, TRUE, rows), t, RekeyOk(rows), sfx)

\* PostgresTable.resort(search_table, extra_table, commit); sfx is "" for
\* the live tables and "_tmp" for the staging tables that reload passes,
\* explicit is "search_table is not None"
resort(c, sfx, explicit, commit) ==
    IF Failed(c) THEN c
    ELSE IF ~(c.mem.id_ordered /\ (explicit \/ c.mem.out_of_order)) THEN c
    ELSE LET st == TName("s", sfx)
             xt == TName("x", sfx)
             s0 == c.wk.tab[st]
             x0 == c.wk.tab[xt]
             srows == RenumberSearch(s0.rows, c.mem.sort, c.tb)
             xrows == RenumberExtras(x0.rows, s0.rows, c.mem.sort, c.tb)
         IN  IF c.mem.extra
             THEN Commit(_set_ordered(ReplaceId(ReplaceId(AddNewId(AddNewId(c, s0.ex), x0.ex), xt, xrows, sfx), st, srows, sfx), FALSE), commit)
             ELSE Commit(_set_ordered(ReplaceId(AddNewId(c, s0.ex), st, srows, sfx), FALSE), commit)

\* PostgresStatsTable.refresh_stats: the body is "pass"
refresh_stats(c) == c

(* ------------------------------- insert_many -------------------------- *)

\* INSERT INTO {table} ... VALUES: a primary key rejects duplicate ids
InsertOk(t, newrows) ==
    /\ t.ex
    /\ t.pkey # "none" =>
          /\ \A i \in 1..Len(newrows) : newrows[i].id \notin Ids(t)
          /\ Cardinality({newrows[i].id : i \in 1..Len(newrows)}) = Len(newrows)

\* what a column of a table holds for a written value: the table must have
\* the column
ColVal(t, col, v) == IF col \in t.cols THEN v ELSE Nil

\* INSERT INTO {table} (...) VALUES ...
InsertRows(c, t, rows) ==
    IF Failed(c) THEN c
    ELSE _execute(c, InsertOk(c.wk.tab[t], rows), [c.wk EXCEPT !.tab[t].rows = Canon(@ \o rows)], FALSE)

\* self.stats.total += n
AddTotal(c, n) == SetMem(c, [c.mem EXCEPT !.total = @ + n])

\* self.stats._record_count({}, self.stats.total)
RecordTotal(c) == _record_count(c, QAll, c.mem.total)

DropForInsert(c, reindex) == IF reindex THEN drop_indexes(drop_pkeys(c, "", TRUE), "") ELSE c

ResortIf(c, cond) == IF cond THEN resort(c, "", FALSE, TRUE) ELSE c

RestoreAfterInsert(c, reindex) == IF reindex THEN restore_indexes(restore_pkeys(c, "", TRUE), "") ELSE c

RefreshIf(c, restat) == IF restat THEN refresh_stats(c) ELSE c

\* insert_many(search_data, extras_data, resort, reindex, restat).  data is
\* the list of rows as pairs [k, e]; he is "extras_data is not None"; ne is
\* len(extras_data).  The dictionaries name the columns their table has.
insert_many(c, data, he, ne, resortArg, reindex, restat) ==
    IF Failed(c) THEN c
    ELSE IF Len(data) = 0 THEN Raise(c, "value")
    ELSE IF he # c.mem.extra THEN Raise(c, "value")
    ELSE IF he /\ Len(data) # ne THEN Raise(c, "value")
    ELSE LET total == c.mem.total
             srows(w) == [i \in 1..Len(data) |-> Row(total + i, data[i].k, ColVal(w.tab["s"], "e", data[i].e))]
             xrows(w) == [i \in 1..Len(data) |-> Row(total + i, Nil, ColVal(w.tab["x"], "e", data[i].e))]
             InsertedSearch(x) == InsertRows(x, "s", srows(x.wk))
             InsertedExtras(x) == IF he THEN InsertRows(x, "x", xrows(x.wk)) ELSE x
             Counted(x) == conn_commit(RecordTotal(AddTotal(_break_stats(_break_order(x)), Len(data))))
         IN  RefreshIf(RestoreAfterInsert(ResortIf(Counted(InsertedExtras(InsertedSearch(DropForInsert(c, reindex)))), resortArg), reindex), restat)

(* ---------------------------- delete, upsert -------------------------- *)

RowsMatching(rows, q) == SelectSeq(rows, LAMBDA r : Matches(q, r))

RowsNotMatching(rows, q) == SelectSeq(rows, LAMBDA r : ~Matches(q, r))

RowsWithIdIn(rows, ids) == SelectSeq(rows, LAMBDA r : r.id \in ids)

RowsWithIdNotIn(rows, ids) == SelectSeq(rows, LAMBDA r : r.id \notin ids)

\* the ids of the search rows a query matches
MatchedIds(rows, q) == {rows[i].id : i \in {i \in 1..Len(rows) : Matches(q, rows[i])}}

\* DELETE FROM {search} WHERE ..., wrapped into WITH deleted_ids AS (...
\* RETURNING id) DELETE FROM {extras} WHERE id IN (...) when there is an
\* extras table; executed with commit=True
ExecDelete(c, q) ==
    IF Failed(c) THEN c
    ELSE LET s0 == c.wk.tab["s"]
             x0 == c.wk.tab["x"]
             w1 == [c.wk EXCEPT !.tab["s"].rows = RowsNotMatching(s0.rows, q)]
         IN  IF c.mem.extra
             THEN _execute(c, s0.ex /\ x0.ex, [w1 EXCEPT !.tab["x"].rows = RowsWithIdNotIn(x0.rows, MatchedIds(s0.rows, q))], TRUE)
             ELSE _execute(c, s0.ex, w1, TRUE)

\* cur.rowcount of that statement: the rows the outer DELETE removed, those
\* of the extras table when there is one
DeleteRowcount(c, q) ==
    IF c.mem.extra
    THEN Len(RowsWithIdIn(c.wk.tab["x"].rows, MatchedIds(c.wk.tab["s"].rows, q)))
    ELSE Len(RowsMatching(c.wk.tab["s"].rows, q))

\* PostgresTable.delete(query, resort, restat)
delete(c, q, resortArg, restat) ==
    IF Failed(c) THEN c
    ELSE RefreshIf(ResortIf(RecordTotal(AddTotal(_break_stats(_break_order(ExecDelete(c, q))), 0 - DeleteRowcount(c, q))), resortArg), restat)

\* The columns a data dictionary names are those whose value is not Nil.
Named(data) == {col \in {"k", "e"} : data[col] # Nil}

\* UPDATE {table} SET (cols) = (vals) WHERE id = row_id.  With no column
\* to set the statement reads "SET () = ()", which the engine rejects.
UpdateOk(t, cols) == t.ex /\ cols # {} /\ cols \subseteq t.cols

UpdateRows(rows, cols, data, rowid) ==
    Canon([i \in 1..Len(rows) |->
        IF rows[i].id = rowid
        THEN [rows[i] EXCEPT !.k = IF "k" \in cols THEN data.k ELSE @,
                             !.e = IF "e" \in cols THEN data.e ELSE @]
        ELSE rows[i]])

ExecUpdate(c, t, cols, data, rowid) ==
    IF Failed(c) THEN c
    ELSE _execute(c, UpdateOk(c.wk.tab[t], cols), [c.wk EXCEPT !.tab[t].rows = UpdateRows(@, cols, data, rowid)], FALSE)

\* The INSERT of upsert is executed as the template
\* "INSERT INTO {0} ({1}) VALUES ({2})": the result of inserter.format(...)
\* is discarded, so the engine is sent the braces and rejects the statement.
UpsertInsertOk(t, cols) == FALSE

ExecUpsertInsert(c, t, cols, row) ==
    IF Failed(c) THEN c
    ELSE _execute(c, UpsertInsertOk(c.wk.tab[t], cols) /\ InsertOk(c.wk.tab[t], <<row>>),
                  [c.wk EXCEPT !.tab[t].rows = Canon(@ \o <<row>>)], FALSE)

\* the update branch: one UPDATE per table, then _break_order if a sort key
\* is among the data
UpsertUpdate(c, sd, ed, data, rowid) ==
    LET Updated(x) == IF c.mem.extra THEN ExecUpdate(ExecUpdate(x, "s", sd, data, rowid), "x", ed, data, rowid)
                                     ELSE ExecUpdate(x, "s", sd, data, rowid)
        Broken(x) == IF ~Failed(x) /\ ~x.mem.out_of_order /\ "k" \in Named(data) /\ x.mem.sort # "none"
                     THEN _break_order(x) ELSE x
    IN  Broken(Updated(c))

\* the insertion branch: the new id is stats.total + 1
UpsertInsert(c, q, sd, ed, data) ==
    LET newid == c.mem.total + 1
        \* the query's equality fields are merged into the inserted row
        kv == IF "k" \in sd THEN data.k ELSE IF q.col = "k" THEN q.val ELSE Nil
        ev == IF "e" \in sd THEN data.e ELSE Nil
        srow == Row(newid, kv, ev)
        xrow == Row(newid, Nil, IF "e" \in ed THEN data.e ELSE Nil)
        Inserted(x) == IF c.mem.extra THEN ExecUpsertInsert(ExecUpsertInsert(x, "s", sd \cup {q.col}, srow), "x", ed, xrow)
                                      ELSE ExecUpsertInsert(x, "s", sd \cup {q.col}, srow)
    IN  AddTotal(_break_order(Inserted(c)), 1)

\* an upsert that updates the first matching row however many rows match
UpsertFirstFound(c, q, sd, ed, data) ==
    IF Failed(c) THEN c
    ELSE LET found == RowsMatching(c.wk.tab["s"].rows, q)
         IN  IF Len(found) >= 1 THEN conn_commit(_break_stats(UpsertUpdate(c, sd, ed, data, found[1].id)))
             ELSE IF q.col = "id" THEN Raise(c, "value")
             ELSE conn_commit(_break_stats(UpsertInsert(c, q, sd, ed, data)))

\* what upsert does once its SELECT ... LIMIT 2 has run
UpsertFound(c, q, sd, ed, data) ==
    IF Failed(c) THEN c
    ELSE LET found == RowsMatching(c.wk.tab["s"].rows, q)
         IN  IF Len(found) > 1 THEN Raise(c, "value")
             ELSE IF Len(found) = 1 THEN conn_commit(_break_stats(UpsertUpdate(c, sd, ed, data, found[1].id)))
             ELSE IF q.col = "id" THEN Raise(c, "value")
             ELSE conn_commit(_break_stats(UpsertInsert(c, q, sd, ed, data)))

\* PostgresTable.upsert(query, data); data maps k and e to a value or to
\* Nil (column not named)
upsert(c, q, data) ==
    IF Failed(c) THEN c
    ELSE IF q = QAll \/ Named(data) = {} THEN Raise(c, "value")
    ELSE IF q.col # "id" /\ q.col \notin c.mem.scols THEN Raise(c, "value")
    ELSE IF ~c.mem.extra /\ ~(Named(data) \subseteq c.mem.scols) THEN Raise(c, "value")
    ELSE IF c.mem.extra /\ ~(Named(data) \subseteq (c.mem.scols \cup c.mem.ecols)) THEN Raise(c, "value")
    ELSE LET sd == IF c.mem.extra THEN Named(data) \cap c.mem.scols ELSE Named(data)
         IN  UpsertFound(_execute(c, c.wk.tab["s"].ex, c.wk, TRUE), q, sd, Named(data) \ sd, data)

(* ------------------------- bulk load and reload ----------------------- *)

\* The rows a file holds for a table.  data is the list of pairs [k, e],
\* first is the id of the first line (the ids of a file are contiguous),
\* cols the columns the file is written for, search tells the two tables
\* apart.
FileRows(data, first, cols, search) ==
    [i \in 1..Len(data) |->
        Row(first + i - 1,
            IF search /\ "k" \in cols THEN data[i].k ELSE Nil,
            IF "e" \in cols THEN data[i].e ELSE Nil)]

\* PostgresTable._copy_from(filename, table, columns, cur_count,
\* includes_ids, kwds): COPY the lines into the table.  Without ids in the
\* file the lines are numbered cur_count + 1, ...; with ids, fileFirst is
\* the id of the file's first line.  Returns cur.rowcount.
_copy_from(c, tname, data, cols, curCount, includesIds, fileFirst) ==
    IF Failed(c) THEN c
    ELSE LET t == c.wk.tab[tname]
             first == IF includesIds THEN fileFirst ELSE curCount + 1
             rows == FileRows(data, first, cols, tname \in {"s", "s_tmp"})
         IN  Return(_cursor_copy(c, InsertOk(t, rows) /\ cols \subseteq t.cols,
                                 [c.wk EXCEPT !.tab[tname].rows = Canon(@ \o rows)]),
                    Len(data))

\* PostgresTable._clone: CREATE TABLE {tmp_table} (LIKE {table}); the ghost
\* field gen numbers the staged contents
_clone(c, base) ==
    IF Failed(c) THEN c
    ELSE LET t == c.wk.tab[base]
             tmp == TName(base, "_tmp")
         IN  _execute(c, t.ex /\ ~c.wk.tab[tmp].ex,
                      [c.wk EXCEPT !.tab[tmp] = [NewTable(t.cols) EXCEPT !.gen = c.wk.tab["s"].gen + 1]], FALSE)

_check_file_input(c, he) ==
    IF Failed(c) THEN c
    ELSE IF he # c.mem.extra THEN Raise(c, "value")
    ELSE c

OldExists(w, base, n) == \E o \in w.old : o.base = base /\ o.n = n

\* the answer of the engine, remembered by the cache of the method
Remember(c, base, n) ==
    IF Failed(c) THEN c
    ELSE Return(SetMem(c, [c.mem EXCEPT !.cache = @ \cup {<<base, n, OldExists(c.wk, base, n)>>}]),
                IF OldExists(c.wk, base, n) THEN 1 ELSE 0)

\* PostgresBase._table_exists is a cached_method: the engine is asked once
\* per name, later calls return the remembered answer
_table_exists(c, base, n) ==
    IF Failed(c) THEN c
    ELSE IF \E e \in c.mem.cache : e[1] = base /\ e[2] = n
         THEN Return(c, IF <<base, n, TRUE>> \in c.mem.cache THEN 1 ELSE 0)
         ELSE Remember(Select(c), base, n)

\* the loop "while self._table_exists(table_old{N}): N += 1" for one table;
\* ret is the backup number reached
RECURSIVE BackupNumber(_, _, _)
RECURSIVE BackupLoop(_, _, _)
BackupLoop(c, base, n) ==
    IF Failed(c) THEN c
    ELSE IF c.ret = 1 THEN BackupNumber(c, base, n + 1)
    ELSE Return(c, n)

BackupNumber(c, base, n) == BackupLoop(_table_exists(c, base, n), base, n)

\* the same loop for the next table of the list, going on from the number
\* reached
NextBackup(c, listed, base) == IF listed /\ ~Failed(c) THEN BackupNumber(c, base, c.ret) ELSE c

RenameIndex(w, from, to) ==
    [w EXCEPT !.tab = [t \in TabNames |-> IF w.tab[t].ex /\ w.tab[t].ix = from THEN [w.tab[t] EXCEPT !.ix = to] ELSE w.tab[t]],
              !.old = {IF o.ix = from THEN [o EXCEPT !.ix = to] ELSE o : o \in w.old}]

\* the backup of a table keeps its names; its rows are not modelled (the
\* program never reads a backup)
Backup(t, base, n) == [base |-> base, n |-> n, pkey |-> t.pkey, ix |-> t.ix, gen |-> t.gen]

\* ALTER TABLE {table} RENAME TO {table}_old{N}
RenameToOld(c, base, n) ==
    IF Failed(c) THEN c
    ELSE _execute(c, c.wk.tab[base].ex /\ ~OldExists(c.wk, base, n),
                  [c.wk EXCEPT !.old = @ \cup {Backup(c.wk.tab[base], base, n)}, !.tab[base] = NoTable], FALSE)

\* a rename of the staging table that commits on its own
RenameTmpToLiveCommitted(c, base) ==
    IF Failed(c) THEN c
    ELSE _execute(c, c.wk.tab[TName(base, "_tmp")].ex,
                  [c.wk EXCEPT !.tab[base] = c.wk.tab[TName(base, "_tmp")], !.tab[TName(base, "_tmp")] = NoTable], TRUE)

\* ALTER TABLE {table}_tmp RENAME TO {table}
RenameTmpToLive(c, base) ==
    IF Failed(c) THEN c
    ELSE _execute(c, c.wk.tab[TName(base, "_tmp")].ex,
                  [c.wk EXCEPT !.tab[base] = c.wk.tab[TName(base, "_tmp")], !.tab[TName(base, "_tmp")] = NoTable], FALSE)

\* ALTER TABLE {table}_old{N} RENAME CONSTRAINT {table}_pkey TO {table}_old{N}_pkey
RenameOldPkey(c, base, n) ==
    IF Failed(c) THEN c
    ELSE _execute(c, \E o \in c.wk.old : o.base = base /\ o.n = n /\ o.pkey = "",
                  [c.wk EXCEPT !.old = {IF o.base = base /\ o.n = n THEN [o EXCEPT !.pkey = OldSfx(n)] ELSE o : o \in @}], FALSE)

\* ALTER TABLE {table} RENAME CONSTRAINT {table}_tmp_pkey TO {table}_pkey
RenameLivePkey(c, base) ==
    IF Failed(c) THEN c
    ELSE _execute(c, c.wk.tab[base].pkey = "_tmp", [c.wk EXCEPT !.tab[base].pkey = ""], FALSE)

\* the four renames of _swap_in_tmp for one search or extras table
SwapTable(c, base, n) == RenameLivePkey(RenameOldPkey(RenameTmpToLive(RenameToOld(c, base, n), base), base, n), base)

\* The renames of _swap_in_tmp for the counts and stats tables.  No
\* "_counts_tmp" or "_stats_tmp" table exists (refresh_stats creates none
\* and the model loads no counts or stats file), so the second rename is
\* rejected by the engine.
SwapStatsTable(c) == _execute(_execute(c, TRUE, c.wk, FALSE), FALSE, c.wk, FALSE)

\* ALTER INDEX {name} RENAME TO {name}_old{N}
RenameIndexToOld(c, n) ==
    IF Failed(c) THEN c
    ELSE _execute(c, IndexNameUsed(c.wk, "") /\ ~IndexNameUsed(c.wk, OldSfx(n)), RenameIndex(c.wk, "", OldSfx(n)), FALSE)

\* ALTER INDEX {name}_tmp RENAME TO {name}
RenameIndexToLive(c) ==
    IF Failed(c) THEN c
    ELSE _execute(c, IndexNameUsed(c.wk, "_tmp"), RenameIndex(c.wk, "_tmp", ""), FALSE)

\* the loop over the rows of meta_indexes that the SELECT returned
SwapIndexes(c, n, indexed) ==
    IF Failed(c) \/ ~c.wk.cat_ix THEN c
    ELSE IF indexed THEN RenameIndexToLive(RenameIndexToOld(c, n)) ELSE RenameIndexToOld(c, n)

\* the renames of _swap_in_tmp once the backup number is found (c.ret)
SwapAll(c, withStats, indexed) ==
    IF Failed(c) THEN c
    ELSE LET n == c.ret
             Tables(x) == IF x.mem.extra THEN SwapTable(SwapTable(x, "s", n), "x", n) ELSE SwapTable(x, "s", n)
             Stats(x) == IF withStats THEN SwapStatsTable(SwapStatsTable(x)) ELSE x
         IN  SwapIndexes(Statement(Stats(Tables(c)), TRUE), n, indexed)

\* PostgresTable._swap_in_tmp(tables, indexed); withStats: the counts and
\* stats tables are among the tables
_swap_in_tmp(c, withStats, indexed) ==
    IF Failed(c) THEN c
    ELSE conn_commit(SwapAll(NextBackup(NextBackup(NextBackup(BackupNumber(c, "s", 1),
                                c.mem.extra, "x"), withStats, "counts"), withStats, "stats"),
                             withStats, indexed))

\* _clone and _copy_from of one table of reload
LoadTmp(c, base, data, cols, includesIds) ==
    _copy_from(_clone(c, base), TName(base, "_tmp"), data, cols, 0, includesIds, 1)

\* a load that does not compare the two row counts
CountsNotCompared(c, differ) == c

\* "if counts differ: self.conn.rollback(); raise RuntimeError"
CountsDiffer(c, differ) == IF ~Failed(c) /\ differ THEN Raise(conn_rollback(c), "runtime") ELSE c

\* PostgresTable.reload(searchfile, extrafile, includes_ids=..., resort,
\* reindex, restat).  data: the lines of the search file; he: an extras
\* file is given; ne: its number of lines (its lines are the first ne of
\* data).  No counts or stats file is given.
reload(c, data, he, ne, includesIds, resortArg, reindex, restat) ==
    IF Failed(c) THEN c
    ELSE LET Loaded(x) == IF he THEN LoadTmp(LoadTmp(x, "s", data, c.mem.scols, includesIds),
                                             "x", SubSeq(data, 1, ne), c.mem.ecols, includesIds)
                                ELSE LoadTmp(x, "s", data, c.mem.scols, includesIds)
             Keyed(x) == IF c.mem.id_ordered /\ resortArg
                         THEN resort(x, "_tmp", TRUE, TRUE)
                         ELSE restore_pkeys(x, "_tmp", TRUE)
             Indexed(x) == IF reindex THEN restore_indexes(x, "_tmp") ELSE x
         IN  conn_commit(_swap_in_tmp(RefreshIf(Indexed(Keyed(CountsDiffer(Loaded(_check_file_input(c, he)),
                                                                            he /\ Len(data) # ne))), restat),
                                      restat, reindex))

\* PostgresTable.copy_from(searchfile, extrafile, includes_ids, resort,
\* reindex, restat).  A file with ids continues after the greatest id the
\* table holds.
copy_from(c, data, he, ne, includesIds, resortArg, reindex, restat) ==
    IF Failed(c) THEN c
    ELSE LET after == IF Ids(c.wk.tab["s"]) = {} THEN 1 ELSE SetMax(Ids(c.wk.tab["s"])) + 1
             Dropped(x) == IF reindex THEN drop_indexes(x, "") ELSE x
             Copied(x) == IF he THEN _copy_from(_copy_from(x, "s", data, c.mem.scols, c.mem.total, includesIds, after),
                                                "x", SubSeq(data, 1, ne), c.mem.ecols, c.mem.total, includesIds, after)
                                ELSE _copy_from(x, "s", data, c.mem.scols, c.mem.total, includesIds, after)
             Sorted(x) == IF c.mem.id_ordered /\ resortArg THEN resort(x, "", FALSE, TRUE) ELSE x
             Restored(x) == IF reindex THEN restore_indexes(x, "") ELSE x
         IN  conn_commit(RefreshIf(RecordTotal(AddTotal(_break_stats(Restored(Sorted(_break_order(
                 CountsDiffer(Copied(Dropped(_check_file_input(c, he))), he /\ Len(data) # ne))))), Len(data))), restat))

(* ------------------------------ the schema ---------------------------- *)

\* UPDATE meta_tables SET sort = %s WHERE name = %s
WriteSort(c, sort) == _execute(c, TRUE, [c.wk EXCEPT !.meta.sort = sort], FALSE)

ResortOrCommit(c, resortArg) == IF resortArg THEN resort(c, "", FALSE, TRUE) ELSE conn_commit(c)

\* PostgresTable.set_sort(sort, resort)
set_sort(c, sort, resortArg) ==
    IF Failed(c) THEN c
    ELSE ResortOrCommit(_break_order(WriteSort(SetMem(c, [c.mem EXCEPT !.sort = sort]), sort)), resortArg)

\* self._id_ordered = True; self._out_of_order = True
MarkOrdered(c) == SetMem(c, [c.mem EXCEPT !.id_ordered = TRUE, !.out_of_order = TRUE])

\* UPDATE meta_tables SET (...) = (...): the statements have no WHERE
\* clause, they write every row of meta_tables
MetaForExtras(c, ordered) ==
    IF ordered /\ ~c.mem.id_ordered
    THEN resort(MarkOrdered(_execute(c, TRUE,
                    [c.wk EXCEPT !.meta.id_ordered = TRUE, !.meta.out_of_order = TRUE, !.meta.has_extras = TRUE,
                                 !.other = [id_ordered |-> TRUE, out_of_order |-> TRUE, has_extras |-> TRUE]], FALSE)),
                "", FALSE, FALSE)
    ELSE _execute(c, TRUE, [c.wk EXCEPT !.meta.has_extras = TRUE, !.other.has_extras = TRUE], FALSE)

\* self.extra_table = self.search_table + "_extras"
NameExtras(c) == SetMem(c, [c.mem EXCEPT !.extra = TRUE])

IndexDepends(c, columns) == IF ~Failed(c) /\ c.wk.cat_ix /\ "k" \in columns THEN Raise(c, "value") ELSE c

\* the checks of the loop over columns; a column that passes the first two
\* runs one SELECT on meta_indexes
ColumnChecks(c, columns) ==
    IF Failed(c) THEN c
    ELSE IF ~(columns \subseteq (c.mem.scols \cup c.mem.ecols)) THEN Raise(c, "value")
    ELSE IF c.mem.sort # "none" /\ "k" \in columns THEN Raise(c, "value")
    ELSE IF columns = {} THEN c
    ELSE IndexDepends(Statement(c, TRUE), columns)

\* self._extra_cols = []
ClearExtraCols(c) == SetMem(c, [c.mem EXCEPT !.ecols = {}])

\* CREATE TABLE {extras} (id bigint, columns...), executed with commit=True
CreateExtras(c, columns) ==
    IF Failed(c) THEN c
    ELSE _execute(c, ~c.wk.tab["x"].ex,
                  [c.wk EXCEPT !.tab["x"] = [NewTable(columns) EXCEPT !.gen = c.wk.tab["s"].gen]], TRUE)

\* cur.copy_to(transfer_file, search_table, columns=['id'] + columns)
CopyOut(c, columns) ==
    IF Failed(c) THEN c
    ELSE _cursor_copy(c, columns \subseteq c.wk.tab["s"].cols, c.wk)

\* what the transfer file holds: the id and the moved columns of each row
Moved(rows, columns) == [i \in 1..Len(rows) |-> Row(rows[i].id, Nil, IF "e" \in columns THEN rows[i].e ELSE Nil)]

\* cur.copy_from(F, extra_table, columns=['id'] + columns)
CopyIn(c, columns) ==
    IF Failed(c) THEN c
    ELSE _cursor_copy(c, InsertOk(c.wk.tab["x"], Moved(c.wk.tab["s"].rows, columns)),
                      [c.wk EXCEPT !.tab["x"].rows = Canon(Moved(c.wk.tab["s"].rows, columns))])

\* ALTER TABLE {search} DROP COLUMN {col} for the moved columns
DropMoved(c, columns) ==
    IF Failed(c) THEN c
    ELSE _execute(c, TRUE,
                  [c.wk EXCEPT !.tab["s"].cols = @ \ columns,
                               !.tab["s"].rows = Canon([i \in 1..Len(@) |-> [@[i] EXCEPT !.e = IF "e" \in columns THEN Nil ELSE @]])],
                  FALSE)

\* With no column to move: CREATE TEMPORARY SEQUENCE tmp_id; UPDATE
\* {extras} SET id = nextval('tmp_id').  The table was just created and has
\* no row to update.
FillExtras(c, columns) ==
    IF columns # {} THEN DropMoved(CopyIn(CopyOut(c, columns), columns), columns)
    ELSE Statement(Statement(c, TRUE), TRUE)

\* PostgresTable.create_extra_table(columns, ordered); columns is a set of
\* column names
create_extra_table(c, columns, ordered) ==
    IF Failed(c) THEN c
    ELSE IF c.mem.extra THEN Raise(c, "value")
    ELSE conn_commit(restore_pkeys(FillExtras(CreateExtras(ClearExtraCols(ColumnChecks(NameExtras(
             MetaForExtras(c, ordered)), columns)), columns), columns), "", FALSE))

(* -------------------------- counting and reading ---------------------- *)

\* PostgresStatsTable._slow_count: SELECT COUNT(*) ... WHERE query
SlowCount(w, q) == Len(RowsMatching(w.tab["s"].rows, q))

\* PostgresStatsTable.count(query), as a function of what the connection
\* sees and of the cached total
Count(w, m, q) ==
    IF q = QAll THEN m.total
    ELSE IF q \in CountKeys /\ w.counts[q] # NoCount THEN w.counts[q]
    ELSE SlowCount(w, q)

\* the rows that search(query, limit=None) yields
Search(w, q) == RowsMatching(w.tab["s"].rows, q)

\* "if nres is None: nres = self._slow_count(query)"
CountIfNone(c, q) ==
    IF ~Failed(c) /\ c.ret = NoCount THEN Return(Select(c), SlowCount(c.wk, q)) ELSE c

\* PostgresStatsTable.count as a call: its SELECTs commit
count(c, q) ==
    IF Failed(c) THEN c
    ELSE IF q = QAll THEN Return(c, c.mem.total)
    ELSE CountIfNone(quick_count(c, q), q)

\* SELECT k, COUNT(*) FROM {search} WHERE k IS NOT NULL GROUP BY k
GroupCount(c) == IF Failed(c) THEN c ELSE _execute(c, "k" \in c.wk.tab["s"].cols, c.wk, TRUE)

\* line 2225: the types of a single grouping column for which avg, min and
\* max are computed
NumericTypes == {<<"numeric">>, <<"bigint">>, <<"integer">>, <<"smallint">>, <<"double precision">>}

OneNumeric(c) == "k" \in DOMAIN c.mem.col_type /\ c.mem.col_type["k"] \in NumericTypes

\* the rows of the stats table for the grouping (["k"], no constraint, no
\* threshold) are kept as the list of their stat names
HasStat(w, stat) == \E i \in 1..Len(w.stats) : w.stats[i] = stat

\* lines 2232, 2244: total, the sum of the counts of the groups
GroupTotal(c) == Len(SelectSeq(c.wk.tab["s"].rows, LAMBDA r : r.k # Nil))

\* lines 2252-2260, INSERT INTO {stats}: the "total" row of the grouping
\* and, for a numeric column, its "avg", "min" and "max" rows
InsertStats(c) ==
    IF Failed(c) THEN c
    ELSE _execute(c, TRUE, [c.wk EXCEPT !.stats = @ \o (IF OneNumeric(c) THEN <<"total", "avg", "min", "max">>
                                                                         ELSE <<"total">>)], TRUE)

\* INSERT INTO {counts}: one row for each value of k that occurs
InsertCounts(c) ==
    IF Failed(c) THEN c
    ELSE _execute(c, TRUE,
                  [c.wk EXCEPT !.counts = [q \in CountKeys |->
                      IF q.col = "k" /\ SlowCount(c.wk, q) > 0 THEN SlowCount(c.wk, q) ELSE @[q]]], TRUE)

\* line 2254: avg = float(avg) / total is a ZeroDivisionError when no row
\* has a value in the column
Average(c) ==
    IF Failed(c) THEN c
    ELSE IF OneNumeric(c) /\ GroupTotal(c) = 0 THEN Raise(c, "zerodivision")
    ELSE c

AddStatsBody(c) ==
    IF Failed(c) \/ HasStat(c.wk, "total") THEN c
    ELSE InsertCounts(InsertStats(Average(GroupCount(c))))

\* PostgresStatsTable.add_stats(["k"]): unless the "total" row of the
\* grouping is there (_has_stats), count the rows of each value of k and
\* insert the stats rows and the counts rows.
add_stats(c) ==
    IF Failed(c) THEN c
    ELSE AddStatsBody(Select(c))

\* line 2085: m = cur.fetchone()[0]; fetchone() is None when the table has
\* no row
FetchMax(c) ==
    IF Failed(c) THEN c
    ELSE IF c.wk.tab["s"].rows = <<>> THEN Raise(Select(c), "type")
    ELSE IF \E i \in 1..Len(c.wk.tab["s"].rows) : c.wk.tab["s"].rows[i].k = Nil
         THEN Select(Select(c))
         ELSE Select(c)

\* lines 2094-2098: the INSERT of the "max" row; its exception is dropped
InsertMax(c) ==
    IF Failed(c) THEN c
    ELSE LET done == _execute(c, TRUE, [c.wk EXCEPT !.stats = @ \o <<"max">>], TRUE)
         IN  [done EXCEPT !.err = "none"]

\* PostgresStatsTable.max("k"): the value of the "max" row when there is
\* one, else the greatest value of the column, which is then stored
max(c) ==
    IF Failed(c) THEN c
    ELSE LET looked == Select(c)
         IN  IF Failed(looked) \/ HasStat(looked.wk, "max") THEN looked
             ELSE InsertMax(FetchMax(looked))

(* ------------------------------ the state ----------------------------- *)

\* the row of meta_tables of another table of the database: one without
\* extras table whose ids are not kept in sort order
OtherRow == [id_ordered |-> FALSE, out_of_order |-> FALSE, has_extras |-> FALSE]

\* The database right after PostgresDatabase.create_table(name, ..., sort,
\* id_ordered, extra_columns): empty tables without primary keys, no index,
\* and the counts row for the empty query that PostgresStatsTable.__init__
\* records.
InitDb(hasx, sort, ordered) ==
    [tab |-> [t \in TabNames |->
                CASE t = "s" -> NewTable(IF hasx THEN {"k"} ELSE {"k", "e"})
                  [] t = "x" -> IF hasx THEN NewTable({"e"}) ELSE NoTable
                  [] OTHER -> NoTable],
     old |-> {},
     meta |-> [sort |-> sort, id_ordered |-> ordered, out_of_order |-> ~ordered,
               has_extras |-> hasx, stats_valid |-> TRUE],
     cat_ix |-> FALSE,
     counts |-> [q \in CountKeys |-> IF q = QAll THEN 0 ELSE NoCount],
     stats |-> <<>>,
     other |-> OtherRow]

\* PostgresTable.__init__ and PostgresStatsTable.__init__
InitMem(hasx, sort, ordered) ==
    [id_ordered |-> ordered, out_of_order |-> ~ordered, stats_valid |-> TRUE,
     sort |-> sort, extra |-> hasx,
     scols |-> IF hasx THEN {"k"} ELSE {"k", "e"},
     ecols |-> IF hasx THEN {"e"} ELSE {},
     col_type |-> [c \in {"id", "k", "e"} |-> CASE c = "id" -> <<"bigint">> [] c = "k" -> <<"integer">> [] OTHER -> <<"text">>],
     total |-> 0,
     cache |-> {},
     label_col |-> "none",
     count_cutoff |-> 1000]

\* A table in service: the database after create_table, insert_many of
\* the row (k = 1, e = 1), restore_pkeys and create_index on k.
LoadedDb(hasx, sort, ordered) ==
    LET d == InitDb(hasx, sort, ordered)
    IN  [d EXCEPT !.tab["s"] = [@ EXCEPT !.rows = <<Row(1, 1, IF hasx THEN Nil ELSE 1)>>, !.pkey = "", !.ix = ""],
                  !.tab["x"] = IF hasx THEN [@ EXCEPT !.rows = <<Row(1, Nil, 1)>>, !.pkey = ""] ELSE @,
                  !.meta.stats_valid = FALSE,
                  !.cat_ix = TRUE,
                  !.counts[QAll] = 1]

LoadedMem(hasx, sort, ordered) ==
    [InitMem(hasx, sort, ordered) EXCEPT !.stats_valid = FALSE, !.total = 1]

\* the record of the last call: its name, how it ended ("none", or the
\* kind of exception), its arguments, whether the engine was made to fail a
\* statement no matter what the statement was, and whether every call so
\* far returned normally
NoLast == [op |-> "init", err |-> "none", arg |-> <<>>, inj |-> FALSE, clean |-> TRUE]

\* (sort, id_ordered) as create_table accepts them
TableKinds == {<<"none", FALSE>>, <<"asc", FALSE>>, <<"asc", TRUE>>}

Init ==
    \E hasx \in BOOLEAN, so \in TableKinds, loaded \in BOOLEAN :
        /\ db = IF loaded THEN LoadedDb(hasx, so[1], so[2]) ELSE InitDb(hasx, so[1], so[2])
        /\ wk = db
        /\ mem = IF loaded THEN LoadedMem(hasx, so[1], so[2]) ELSE InitMem(hasx, so[1], so[2])
        /\ last = NoLast
        /\ nops = 0

\* the state a call leaves behind, and the record of the call
Finish(c, op, arg) ==
    /\ nops' = nops + 1
    /\ db' = c.db
    /\ wk' = c.wk
    /\ mem' = c.mem
    /\ last' = [op |-> op, err |-> c.err, arg |-> arg, inj |-> c.f # 0, clean |-> last.clean /\ c.err = "none"]

SRows(w) == w.tab["s"].rows

XRows(w) == w.tab["x"].rows

(* ------------------------------- actions ------------------------------ *)

\* A behaviour is a sequence of at most MaxOps calls.
CanCall == nops < MaxOps

DataRow(kv, ev) == [k |-> kv, e |-> ev]

\* the lists of rows handed to insert_many and written to files
InsertData == {<<>>, <<DataRow(1, 1)>>, <<DataRow(2, 1), DataRow(1, 2)>>, <<DataRow(1, 2), DataRow(1, 1)>>}

\* the data dictionaries handed to upsert
UpsertData == {DataRow(Nil, Nil), DataRow(2, Nil), DataRow(Nil, 2), DataRow(1, 1)}

\* how the extras data or extras file comes: absent, as long as the search
\* data, or one row short
Extras == {"absent", "full", "short"}

ExtrasLen(data, ex) == IF ex = "short" THEN Len(data) - 1 ELSE Len(data)

\* the engine's two ways of ordering equal rows matter only to a resort
Ties(rs) == IF rs /\ mem.id_ordered THEN BOOLEAN ELSE {TRUE}

Fits(data) == mem.total + Len(data) <= MaxRows /\ Len(SRows(wk)) + Len(data) <= MaxRows

InsertMany ==
    /\ CanCall
    /\ \E data \in InsertData, ex \in Extras, rs \in BOOLEAN, ri \in BOOLEAN :
        \E tb \in Ties(rs) :
          /\ Fits(data)
          /\ ex = "short" => Len(data) > 0
          /\ LET run(f) == insert_many(Ctx(db, wk, mem, f, tb), data, ex # "absent", ExtrasLen(data, ex), rs, ri, TRUE)
             IN  \E f \in 0..run(0).n :
                    Finish(run(f), "insert_many", [data |-> data, ex |-> ex, resort |-> rs, reindex |-> ri])

Delete ==
    /\ CanCall
    /\ \E q \in Queries, rs \in BOOLEAN :
        \E tb \in Ties(rs) :
          LET run(f) == delete(Ctx(db, wk, mem, f, tb), q, rs, TRUE)
          IN  \E f \in 0..run(0).n : Finish(run(f), "delete", [q |-> q])

Upsert ==
    /\ CanCall
    /\ \E q \in Queries, data \in UpsertData :
          LET run(f) == upsert(Ctx(db, wk, mem, f, TRUE), q, data)
          IN  \E f \in 0..run(0).n : Finish(run(f), "upsert", [q |-> q, data |-> data])

Resort ==
    /\ CanCall
    /\ \E tb \in Ties(TRUE) :
          LET run(f) == resort(Ctx(db, wk, mem, f, tb), "", FALSE, TRUE)
          IN  \E f \in 0..run(0).n : Finish(run(f), "resort", <<>>)

\* reload(searchfile, extrafile, includes_ids, resort, reindex, restat): the
\* files hold ids 1, 2, ... so that includes_ids changes nothing but the
\* default of resort, which is its negation.
Reload ==
    /\ CanCall
    /\ \E data \in InsertData, ex \in Extras, rs \in BOOLEAN, ri \in BOOLEAN, rt \in BOOLEAN :
        \E tb \in Ties(rs) :
          /\ ex = "short" => Len(data) > 0
          /\ LET run(f) == reload(Ctx(db, wk, mem, f, tb), data, ex # "absent", ExtrasLen(data, ex), ~rs, rs, ri, rt)
             IN  \E f \in 0..run(0).n :
                    Finish(run(f), "reload", [ex |-> ex, restat |-> rt])

CopyFrom ==
    /\ CanCall
    /\ \E data \in InsertData, ex \in Extras, ids \in BOOLEAN, rs \in BOOLEAN, ri \in BOOLEAN :
        \E tb \in Ties(rs) :
          /\ Fits(data)
          /\ ex = "short" => Len(data) > 0
          /\ LET run(f) == copy_from(Ctx(db, wk, mem, f, tb), data, ex # "absent", ExtrasLen(data, ex), ids, rs, ri, TRUE)
             IN  \E f \in 0..run(0).n :
                    Finish(run(f), "copy_from", [ex |-> ex, ids |-> ids])

SetSort ==
    /\ CanCall
    /\ \E sort \in {"asc", "desc"}, rs \in BOOLEAN :
        \E tb \in Ties(rs) :
          LET run(f) == set_sort(Ctx(db, wk, mem, f, tb), sort, rs)
          IN  \E f \in 0..run(0).n : Finish(run(f), "set_sort", <<>>)

\* A table is made id-ordered only when it has a sort order.  Column k is
\* passed only where create_extra_table rejects it.
CreateExtraTable ==
    /\ CanCall
    /\ \E columns \in {{}, {"e"}, {"k"}}, ordered \in BOOLEAN :
        \E tb \in Ties(ordered) :
          /\ ordered => mem.sort # "none"
          /\ columns = {"k"} => (mem.sort # "none" \/ wk.cat_ix)
          /\ LET run(f) == create_extra_table(Ctx(db, wk, mem, f, tb), columns, ordered)
             IN  \E f \in 0..run(0).n : Finish(run(f), "create_extra_table", [columns |-> columns])

DropPkeys ==
    /\ CanCall
    /\ LET run(f) == drop_pkeys(Ctx(db, wk, mem, f, TRUE), "", TRUE)
       IN  \E f \in 0..run(0).n : Finish(run(f), "drop_pkeys", <<>>)

RestorePkeys ==
    /\ CanCall
    /\ LET run(f) == restore_pkeys(Ctx(db, wk, mem, f, TRUE), "", TRUE)
       IN  \E f \in 0..run(0).n : Finish(run(f), "restore_pkeys", <<>>)

CreateIndex ==
    /\ CanCall
    /\ LET run(f) == create_index(Ctx(db, wk, mem, f, TRUE))
       IN  \E f \in 0..run(0).n : Finish(run(f), "create_index", <<>>)

DropIndexes ==
    /\ CanCall
    /\ LET run(f) == drop_indexes(Ctx(db, wk, mem, f, TRUE), "")
       IN  \E f \in 0..run(0).n : Finish(run(f), "drop_indexes", <<>>)

RestoreIndexes ==
    /\ CanCall
    /\ LET run(f) == restore_indexes(Ctx(db, wk, mem, f, TRUE), "")
       IN  \E f \in 0..run(0).n : Finish(run(f), "restore_indexes", <<>>)

AddStats ==
    /\ CanCall
    /\ LET run(f) == add_stats(Ctx(db, wk, mem, f, TRUE))
       IN  \E f \in 0..run(0).n : Finish(run(f), "add_stats", <<>>)

CountCall ==
    /\ CanCall
    /\ \E q \in CountKeys :
          LET run(f) == count(Ctx(db, wk, mem, f, TRUE), q)
          IN  \E f \in 0..run(0).n : Finish(run(f), "count", [q |-> q, ret |-> run(f).ret])

Next ==
    \/ InsertMany
    \/ Delete
    \/ Upsert
    \/ Resort
    \/ Reload
    \/ CopyFrom
    \/ SetSort
    \/ CreateExtraTable
    \/ DropPkeys
    \/ RestorePkeys
    \/ CreateIndex
    \/ DropIndexes
    \/ RestoreIndexes
    \/ AddStats
    \/ CountCall

Spec == Init /\ [][Next]_vars

(* --------------------------- single statements ------------------------ *)

\* statements handed to _execute one at a time: the UPDATEs of the flags in
\* meta_tables, an INSERT of one row into the search table, and an ALTER
\* TABLE of a table that does not exist
Statements == {"out_of_order", "ordered", "stats_invalid", "insert", "alter_missing"}

\* the connection's view after the engine has run the statement
StatementEffect(w, st) ==
    CASE st = "out_of_order" -> [w EXCEPT !.meta.out_of_order = TRUE]
      [] st = "ordered" -> [w EXCEPT !.meta.out_of_order = FALSE]
      [] st = "stats_invalid" -> [w EXCEPT !.meta.stats_valid = FALSE]
      [] st = "insert" -> [w EXCEPT !.tab["s"].rows = Append(@, Row(Len(@) + 1, 1, Nil))]
      [] OTHER -> w

\* whether the engine accepts it
StatementOk(w, st) ==
    CASE st = "insert" -> Len(SRows(w)) < MaxRows
      [] st = "alter_missing" -> FALSE
      [] OTHER -> TRUE

\* PostgresBase._execute from its first line: a query that is not a
\* Composable raises TypeError before a cursor is made
ExecuteQuery(c, composable, st, commit) ==
    IF ~composable THEN Raise(c, "type")
    ELSE _execute(c, StatementOk(c.wk, st), StatementEffect(c.wk, st), commit)

Execute ==
    /\ CanCall
    /\ \E st \in Statements, composable \in BOOLEAN, commit \in BOOLEAN :
          LET run(f) == ExecuteQuery(Ctx(db, wk, mem, f, TRUE), composable, st, commit)
          IN  \E f \in 0..1 :
                Finish(run(f), "_execute", [st |-> st, composable |-> composable, commit |-> commit, pending |-> wk # db])

\* the statements of one connection, one after the other
SpecExecute == Init /\ [][Execute]_vars

(* --------------------------- query translation ------------------------ *)

\* A query dictionary is the sequence of its items in iteration order.  An
\* item has a key (a name and, for a dotted key, the path after the head)
\* and a value: a literal (Nil for None), a list of literals, a dictionary
\* whose keys all start with $ (sub holds it), or a list of clauses (sub).
Item(name, path, vt, lit, list, sub) ==
    [name |-> name, path |-> path, vt |-> vt, lit |-> lit, list |-> list, sub |-> sub]

\* the keys whose first character is $
DollarKeys == {"$or", "$and", "$exists", "$notcontains", "$lte", "$lt", "$gte", "$gt", "$ne",
               "$in", "$nin", "$contains", "$containedin", "$bogus"}

\* psycopg2's Identifier(name) as it is rendered into the statement
Identifier(name) == "\"" \o name \o "\""

\* SQL("").join of SQL("->{0}").format(Literal(p)) over the path
RECURSIVE PathText(_)
PathText(path) == IF path = <<>> THEN "" ELSE "->" \o ToString(Head(path)) \o PathText(Tail(path))

\* SQL(sep).join(strings)
RECURSIVE Join(_, _)
Join(sep, strings) ==
    IF strings = <<>> THEN ""
    ELSE IF Len(strings) = 1 THEN strings[1]
    ELSE strings[1] \o sep \o Join(sep, Tail(strings))

\* what a translation returns: (None, None), or a statement text with %s
\* placeholders and the list of values bound to them; or the exception raised
NoneParsed == [err |-> "none", isnone |-> TRUE, text |-> "", vals |-> <<>>]

Parsed(text, vals) == [err |-> "none", isnone |-> FALSE, text |-> text, vals |-> vals]

ParseError(kind) == [err |-> kind, isnone |-> TRUE, text |-> "", vals |-> <<>>]

\* a value as it is put into the list of bound values: wrap is how it is
\* adapted (as it is, Json(value), Array(value), or [v] for $notcontains)
Bound(wrap, vt, lit, list) == [wrap |-> wrap, vt |-> vt, lit |-> lit, list |-> list]

\* the column a nested dictionary is about: None, a column name, or the
\* SQL object built for a dotted key
NoOuter == [kind |-> "none", name |-> "", text |-> ""]

\* the test of the key without the test of the head of a dotted key
KeyCheckUndotted(m, it) ==
    IF it.path # <<>> THEN "none"
    ELSE IF it.name \notin DOMAIN m.col_type THEN "key"
    ELSE IF it.name # "id" /\ it.name \notin m.scols THEN "value"
    ELSE "none"

\* lines 518-526: the KeyError of self._col_type[key] for an undotted key
\* comes before the test against the search columns
KeyCheck(m, it) ==
    IF it.path = <<>> /\ it.name \notin DOMAIN m.col_type THEN "key"
    ELSE IF it.name # "id" /\ it.name \notin m.scols THEN "value"
    ELSE "none"

\* the key of lines 527-530 and 532: a dotted key is an SQL object
KeyOuter(it) ==
    IF it.path # <<>>
    THEN [kind |-> "sql", name |-> it.name, text |-> Identifier(it.name) \o PathText(it.path)]
    ELSE [kind |-> "name", name |-> it.name, text |-> Identifier(it.name)]

\* Python's truth value of a literal or a list
Truthy(it) ==
    CASE it.vt = "lit" -> it.lit \notin {Nil, 0}
      [] it.vt = "list" -> it.list # <<>>
      [] it.vt = "ops" -> it.sub[1] # <<>>
      [] OTHER -> it.sub # <<>>

\* the comparison operators of lines 445-464
OperatorText(key) ==
    CASE key = "$lte" -> " <= %s"
      [] key = "$lt" -> " < %s"
      [] key = "$gte" -> " >= %s"
      [] key = "$gt" -> " > %s"
      [] key = "$ne" -> " != %s"
      [] key = "$in" -> " = ANY(%s)"
      [] key = "$nin" -> " = ANY(%s)"
      [] key = "$contains" -> " @> %s"
      [] key = "$containedin" -> " <@ %s"
      [] OTHER -> ""

\* lines 434-473 of _parse_special, for a column text and force_json
Operator(key, it, coltext, force_json) ==
    IF key = "$exists"
    THEN Parsed(coltext \o (IF Truthy(it) THEN " IS NOT NULL" ELSE " IS NULL"), <<>>)
    ELSE IF key = "$notcontains"
    THEN IF it.vt # "list" THEN ParseError("type")
         ELSE Parsed(Join(" AND ", [i \in 1..Len(it.list) |-> "NOT " \o coltext \o " @> %s"]),
                     [i \in 1..Len(it.list) |-> Bound("single", "lit", it.list[i], <<>>)])
    ELSE IF OperatorText(key) = "" THEN ParseError("value")
    ELSE IF force_json /\ key \in {"$in", "$nin"} THEN ParseError("value")
    ELSE Parsed((IF key = "$nin" THEN "NOT (" ELSE "") \o coltext \o OperatorText(key),
                <<Bound(IF force_json THEN "json" ELSE IF key \in {"$in", "$nin"} THEN "array" ELSE "plain",
                        it.vt, it.lit, it.list)>>)

\* what a loop over items or clauses has gathered so far
Gathered(err, strings, vals) == [err |-> err, strings |-> strings, vals |-> vals]

\* strings.append(sub) with the values put in front of the list
GatherInFront(acc, r) ==
    IF r.err # "none" THEN Gathered(r.err, acc.strings, acc.vals)
    ELSE IF r.isnone THEN acc
    ELSE Gathered("none", Append(acc.strings, r.text), r.vals \o acc.vals)

\* strings.append(sub); values.extend(vals) unless sub is None
Gather(acc, r) ==
    IF r.err # "none" THEN Gathered(r.err, acc.strings, acc.vals)
    ELSE IF r.isnone THEN acc
    ELSE Gathered("none", Append(acc.strings, r.text), acc.vals \o r.vals)

RECURSIVE _parse_dict(_, _, _)
RECURSIVE _parse_special(_, _, _)
RECURSIVE ParseItems(_, _, _, _, _)
RECURSIVE ParseClauses(_, _, _, _, _)

\* the value of a column key, with a literal written into the statement
ParseValueInline(m, it) ==
    IF it.vt = "ops" THEN _parse_dict(m, it.sub[1], KeyOuter(it))
    ELSE IF it.vt = "lit" /\ it.lit = Nil THEN Parsed(KeyOuter(it).text \o " IS NULL", <<>>)
    ELSE Parsed(KeyOuter(it).text \o " = " \o ToString(it.lit), <<>>)

\* lines 531-546: the value of a column key
ParseValue(m, it) ==
    IF it.vt = "ops" THEN _parse_dict(m, it.sub[1], KeyOuter(it))
    ELSE IF it.vt = "lit" /\ it.lit = Nil THEN Parsed(KeyOuter(it).text \o " IS NULL", <<>>)
    ELSE Parsed(KeyOuter(it).text \o " = %s",
                <<Bound(IF it.path # <<>> \/ m.col_type[it.name] = <<"jsonb">> THEN "json" ELSE "plain",
                        it.vt, it.lit, it.list)>>)

\* one turn of the loop of _parse_dict
ParseItem(m, it, outer) ==
    IF it.name = "" THEN ParseError("value")
    ELSE IF it.name \in DollarKeys THEN _parse_special(m, it, outer)
    ELSE IF KeyCheck(m, it) # "none" THEN ParseError(KeyCheck(m, it))
    ELSE ParseValue(m, it)

ParseItems(m, D, outer, i, acc) ==
    IF acc.err # "none" \/ i > Len(D) THEN acc
    ELSE ParseItems(m, D, outer, i + 1, Gather(acc, ParseItem(m, D[i], outer)))

ParseClauses(m, clauses, col, i, acc) ==
    IF acc.err # "none" \/ i > Len(clauses) THEN acc
    ELSE ParseClauses(m, clauses, col, i + 1, Gather(acc, _parse_dict(m, clauses[i], col)))

\* the strings joined, or (None, None) when there is none
Joined(acc, sep, open, close) ==
    IF acc.err # "none" THEN ParseError(acc.err)
    ELSE IF acc.strings = <<>> THEN NoneParsed
    ELSE Parsed(open \o Join(sep, acc.strings) \o close, acc.vals)

\* PostgresTable._parse_special(key, value, col)
_parse_special(m, it, col) ==
    IF it.name \in {"$or", "$and"}
    THEN IF it.vt # "clauses" THEN ParseError("type")
         ELSE Joined(ParseClauses(m, it.sub, col, 1, Gathered("none", <<>>, <<>>)),
                     IF it.name = "$or" THEN " OR " ELSE " AND ", "(", ")")
    ELSE IF col.kind = "sql" THEN Operator(it.name, it, col.text, TRUE)
    ELSE IF col.kind = "none" \/ col.name \notin DOMAIN m.col_type THEN ParseError("key")
    ELSE Operator(it.name, it, Identifier(col.name), m.col_type[col.name] = <<"jsonb">>)

\* PostgresTable._parse_dict(D, outer)
_parse_dict(m, D, outer) ==
    IF Len(D) = 0 THEN NoneParsed
    ELSE Joined(ParseItems(m, D, outer, 1, Gathered("none", <<>>, <<>>)), " AND ", "", "")

\* the queries translated: literals, operators, dotted keys, unknown keys
\* and the empty key, alone, in pairs, and nested in $or / $and twice

Lit(name, path, v) == Item(name, path, "lit", v, <<>>, <<>>)

List(name, l) == Item(name, <<>>, "list", 0, l, <<>>)

Ops(name, path, D) == Item(name, path, "ops", 0, <<>>, <<D>>)

Clauses(name, clauses) == Item(name, <<>>, "clauses", 0, <<>>, clauses)

LeafItems ==
    {Lit(n, <<>>, v) : n \in {"id", "k", "e", "zz"}, v \in {Nil, 1, 2}}
        \cup {Lit(n, <<1>>, 1) : n \in {"k", "zz"}}
        \cup {Lit("", <<>>, 1)}

OperatorDicts ==
    {<<Lit(o, <<>>, v)>> : o \in {"$lte", "$ne", "$exists", "$bogus"}, v \in {0, 1, 2}}
        \cup {<<List(o, l)>> : o \in {"$in", "$notcontains", "$contains"}, l \in {<<1>>, <<2>>, <<1, 2>>}}
        \cup {<<Lit("$gte", <<>>, 1), Lit("$lte", <<>>, 2)>>, <<>>}

OperatorItems ==
    {Ops(n, <<>>, D) : n \in {"k", "e", "zz"}, D \in OperatorDicts}
        \cup {Ops("k", <<1>>, D) : D \in OperatorDicts}

FlatQueries ==
    {<<>>} \cup {<<a>> : a \in LeafItems \cup OperatorItems}
        \cup {<<Lit("k", <<>>, 1), a>> : a \in LeafItems \cup OperatorItems}

NestedOnce ==
    {<<Clauses(o, <<D>>)>> : o \in {"$or", "$and"}, D \in FlatQueries}
        \cup {<<Clauses("$or", <<<<Lit("k", <<>>, 1)>>, D>>)>> : D \in FlatQueries}
        \cup {<<Ops("k", <<>>, <<Clauses("$or", <<D, <<Lit("$gte", <<>>, 2)>>>>)>>)>> : D \in OperatorDicts}
        \cup {<<Clauses("$or", <<>>)>>, <<Lit("$lte", <<>>, 1)>>}

NestedTwice == {<<Clauses("$and", <<D>>)>> : D \in NestedOnce}

\* the dictionary {"k": 2, "e": 6} in the two orders in which iteritems()
\* can yield its keys
TwoEqualities == {<<Lit("k", <<>>, 2), Lit("e", <<>>, 6)>>, <<Lit("e", <<>>, 6), Lit("k", <<>>, 2)>>}

QuerySet == FlatQueries \cup NestedOnce \cup NestedTwice \cup TwoEqualities

\* a table whose column e, in the search or in the extras table, is text
\* or jsonb
InitParse ==
    \E hasx \in BOOLEAN, json \in BOOLEAN :
        /\ db = InitDb(hasx, "none", FALSE)
        /\ wk = db
        /\ mem = [InitMem(hasx, "none", FALSE) EXCEPT !.col_type["e"] = IF json THEN <<"jsonb">> ELSE @]
        /\ last = NoLast
        /\ nops = 0

Raised(c, r) == IF r.err = "none" THEN c ELSE Raise(c, r.err)

ParseDict ==
    /\ nops < MaxParses
    /\ \E q \in QuerySet :
          LET out == _parse_dict(mem, q, NoOuter)
          IN  Finish(Raised(Ctx(db, wk, mem, 0, TRUE), out), "_parse_dict", [q |-> q, out |-> out])

SpecParse == InitParse /\ [][ParseDict]_vars

(* ------------------------------ column types -------------------------- *)

\* A type string is the sequence of its parts: a type name and what follows
\* it, so that one string can be the beginning of another.

\* str.lower()
LowerPart(s) == IF s = "TEXT" THEN "text" ELSE s

Lower(typ) == [i \in 1..Len(typ) |-> LowerPart(typ[i])]

\* types_whitelist, as far as the strings below go
types_whitelist ==
    {<<"smallint">>, <<"integer">>, <<"bigint">>, <<"numeric">>, <<"text">>, <<"varchar">>,
     <<"jsonb">>, <<"timestamp">>, <<"bit">>}

\* param_types_whitelist: for each pattern the strings it matches in full,
\* and whether it ends with $.  The second pattern (text, char, varchar with
\* an optional collation) has no $.
param_types_whitelist ==
    <<[lang |-> {<<"bit", "(5)">>}, anchored |-> TRUE],
      [lang |-> {<<"text">>, <<"varchar">>, <<"text", " collate \"c\"">>, <<"varchar", " collate \"c\"">>}, anchored |-> FALSE],
      [lang |-> {<<"timestamp", "(3)">>}, anchored |-> TRUE],
      [lang |-> {<<"numeric", "(3,1)">>}, anchored |-> TRUE]>>

\* regexp.match(s): the pattern matches a beginning of s, which a final $
\* forces to be all of s
RegexpMatch(regexp, s) ==
    \E i \in 1..Len(s) : SubSeq(s, 1, i) \in regexp.lang /\ (regexp.anchored => i = Len(s))

\* the test of add_column, create_extra_table and process_columns
TypeAllowed(typ) ==
    \/ Lower(typ) \in types_whitelist
    \/ \E j \in 1..Len(param_types_whitelist) : RegexpMatch(param_types_whitelist[j], Lower(typ))

\* the type strings handed to add_column
TypeStrings ==
    {<<"integer">>, <<"TEXT">>, <<"jsonb">>, <<"bit", "(5)">>, <<"numeric", "(3,1)">>,
     <<"text", " collate \"c\"">>, <<"wibble">>,
     <<"text", "; drop table t">>, <<"integer", "; drop table t">>, <<"bit", "(5)", "; drop table t">>}

(* --------------------------- add_column, drop_column ------------------ *)

\* self._col_type[name] = datatype
SetType(ct, name, typ) == [x \in DOMAIN ct \cup {name} |-> IF x = name THEN typ ELSE ct[x]]

\* self._col_type.pop(name, None)
PopType(ct, name) == [x \in DOMAIN ct \ {name} |-> ct[x]]

\* lines 1826-1833
AddChecks(c, name, typ) ==
    IF Failed(c) THEN c
    ELSE IF name \in c.mem.scols \/ name \in c.mem.ecols THEN Raise(c, "value")
    ELSE IF ~TypeAllowed(typ) THEN Raise(c, "value")
    ELSE SetMem(c, [c.mem EXCEPT !.col_type = SetType(@, name, typ)])

\* lines 1834-1839
AddTarget(c, extra) == IF ~Failed(c) /\ extra /\ ~c.mem.extra THEN Raise(c, "value") ELSE c

\* ALTER TABLE {table} ADD COLUMN {name} datatype, with commit=False
ExecAddColumn(c, t, name) ==
    IF Failed(c) THEN c
    ELSE _execute(c, c.wk.tab[t].ex /\ name \notin c.wk.tab[t].cols \cup {"id"},
                  [c.wk EXCEPT !.tab[t].cols = @ \cup {name}], FALSE)

\* lines 1844-1847
AppendColumn(c, name, extra) ==
    IF name = "id" THEN c
    ELSE IF extra THEN SetMem(c, [c.mem EXCEPT !.ecols = @ \cup {name}])
    ELSE SetMem(c, [c.mem EXCEPT !.scols = @ \cup {name}])

\* PostgresTable.add_column(name, datatype, extra, commit)
add_column(c, name, typ, extra, commit) ==
    Commit(AppendColumn(ExecAddColumn(AddTarget(AddChecks(c, name, typ), extra),
                                      IF extra THEN "x" ELSE "s", name), name, extra), commit)

\* self._sort_keys
SortKeys(m) == IF m.sort = "none" THEN {} ELSE {"k"}

\* lines 1854-1863: for a search column, DELETE FROM meta_indexes WHERE
\* table_name = %s AND columns @> [name], with commit=False
DropTarget(c, name) ==
    IF Failed(c) THEN c
    ELSE IF name \in c.mem.scols
    THEN SetMem(_execute(c, TRUE, [c.wk EXCEPT !.cat_ix = IF name = "k" THEN FALSE ELSE @], FALSE),
                [c.mem EXCEPT !.scols = @ \ {name}])
    ELSE IF name \in c.mem.ecols THEN SetMem(c, [c.mem EXCEPT !.ecols = @ \ {name}])
    ELSE Raise(c, "value")

\* the table without the column, and without an index on it
WithoutColumn(w, t, name) ==
    [w EXCEPT !.tab[t] = [@ EXCEPT !.cols = @ \ {name},
                                   !.rows = Canon([i \in 1..Len(@) |->
                                                     [@[i] EXCEPT !.k = IF name = "k" THEN Nil ELSE @,
                                                                  !.e = IF name = "e" THEN Nil ELSE @]]),
                                   !.ix = IF name = "k" THEN "none" ELSE @]]

\* ALTER TABLE {table} DROP COLUMN {name}
ExecDropColumn(c, t, name, commit) ==
    IF Failed(c) THEN c
    ELSE _execute(c, c.wk.tab[t].ex /\ name \in c.wk.tab[t].cols, WithoutColumn(c.wk, t, name), commit)

\* line 1866
ForgetType(c, name) == SetMem(c, [c.mem EXCEPT !.col_type = PopType(@, name)])

\* PostgresTable.drop_column(name, commit)
drop_column(c, name, commit) ==
    IF Failed(c) THEN c
    ELSE IF name \in SortKeys(c.mem) THEN Raise(c, "value")
    ELSE ForgetType(ExecDropColumn(DropTarget(c, name), IF name \in c.mem.scols THEN "s" ELSE "x", name, commit), name)

\* the attributes a change of the schema rewrites
Columns(m) == [scols |-> m.scols, ecols |-> m.ecols, col_type |-> m.col_type]

AddColumn ==
    /\ nops < MaxSchemaOps
    /\ \E name \in {"id", "k", "e", "c"}, typ \in TypeStrings, extra \in BOOLEAN :
          LET run(f) == add_column(Ctx(db, wk, mem, f, TRUE), name, typ, extra, TRUE)
          IN  \E f \in 0..run(0).n :
                Finish(run(f), "add_column",
                       [name |-> name, typ |-> typ, extra |-> extra, ddl |-> run(f).n > 0, before |-> Columns(mem)])

\* added is the table to which the call before this one, if it was an
\* add_column that returned normally, added the column
DropColumn ==
    /\ nops < MaxSchemaOps
    /\ \E name \in {"id", "k", "e", "c"} :
          LET run(f) == drop_column(Ctx(db, wk, mem, f, TRUE), name, TRUE)
          IN  \E f \in 0..run(0).n :
                Finish(run(f), "drop_column",
                       [name |-> name,
                        added |-> IF last.op = "add_column" /\ last.err = "none" /\ last.arg.name = name
                                  THEN (IF last.arg.extra THEN "extras" ELSE "search")
                                  ELSE "no"])

SpecSchema == Init /\ [][AddColumn \/ DropColumn]_vars

(* ------------------------ search, distinct, random -------------------- *)

\* limit=None
NoLimit == 0 - 1

\* cur.fetchone() of an empty result, and the None that lucky returns
NoRow == [id |-> Nil, k |-> Nil, e |-> Nil]

\* the query dictionaries of the reading methods, {"k": None} among them
ReadQueries == Queries \cup {QK(Nil)}

\* the dictionary of a query, as _parse_dict iterates over it
QueryItems(q) == IF q.col = "none" THEN <<>> ELSE <<Lit(q.col, <<>>, q.val)>>

\* ORDER BY: the rows as the engine returns them, by id or by the sort order
\* of the table; tb orders the rows the ORDER BY leaves equal, and all the
\* rows when there is no ORDER BY
OrderRank(rows, byId, sort, tb, i) ==
    IF byId /\ sort # "none"
    THEN 1 + Cardinality({j \in 1..Len(rows) :
                \/ rows[j].id < rows[i].id
                \/ rows[j].id = rows[i].id /\ IF tb THEN j < i ELSE j > i})
    ELSE IF sort = "none" THEN (IF tb THEN i ELSE Len(rows) + 1 - i)
    ELSE RowNumber(rows, sort, tb, i)

Ordered(rows, byId, sort, tb) ==
    [p \in 1..Len(rows) |-> rows[CHOOSE i \in 1..Len(rows) : OrderRank(rows, byId, sort, tb, i) = p]]

\* LIMIT limit OFFSET offset
Window(rows, limit, offset) ==
    IF limit = NoLimit THEN SubSeq(rows, offset + 1, Len(rows))
    ELSE SubSeq(rows, offset + 1, IF offset + limit < Len(rows) THEN offset + limit ELSE Len(rows))

\* PostgresTable._build_query(query, limit, offset, sort=None): the
\* exception it raises, "none" when it returns
BuildQueryError(m, q, limit, offset) ==
    IF _parse_dict(m, QueryItems(q), NoOuter).err # "none" THEN _parse_dict(m, QueryItems(q), NoOuter).err
    ELSE IF m.sort = "none" /\ limit # NoLimit /\ ~(limit = 1 /\ offset = 0) THEN "value"
    ELSE "none"

\* the rows that the SELECT of search and lucky returns
Selected(c, q, limit, offset) ==
    Window(Ordered(RowsMatching(c.wk.tab["s"].rows, q),
                   ~(q.col = "k" \/ c.mem.out_of_order), c.mem.sort, c.tb), limit, offset)

\* prelimit = max(limit, self._count_cutoff - offset) when nothing is cached
Prelimit(m, limit, offset, nres) ==
    IF nres # NoCount THEN limit
    ELSE IF limit >= m.count_cutoff - offset THEN limit ELSE m.count_cutoff - offset

\* _build_query and the SELECT of search; c.ret is what quick_count returned
SearchSelect(c, q, limit, offset) ==
    IF Failed(c) THEN c
    ELSE IF BuildQueryError(c.mem, q, Prelimit(c.mem, limit, offset, c.ret), offset) # "none"
         THEN Raise(c, BuildQueryError(c.mem, q, Prelimit(c.mem, limit, offset, c.ret), offset))
    ELSE Return(Select(c), [nres |-> c.ret, prelimit |-> Prelimit(c.mem, limit, offset, c.ret),
                            rows |-> Selected(c, q, Prelimit(c.mem, limit, offset, c.ret), offset)])

\* nres = offset + cur.rowcount when nothing is cached
SearchNumber(r, offset) == IF r.nres = NoCount THEN offset + Len(r.rows) ELSE r.nres

\* info['start']
SearchStart(number, limit, offset) ==
    IF offset < number THEN offset
    ELSE IF offset - (1 + ((offset - number) \div limit)) * limit < 0 THEN 0
    ELSE offset - (1 + ((offset - number) \div limit)) * limit

\* lines 817-833: what search returns and writes into info
SearchInfo(c, limit, offset) ==
    IF Failed(c) THEN c
    ELSE Return(c, [res |-> Window(c.ret.rows, limit, 0),
                    number |-> SearchNumber(c.ret, offset),
                    count |-> limit,
                    start |-> SearchStart(SearchNumber(c.ret, offset), limit, offset),
                    exact_count |-> IF c.ret.nres = NoCount THEN Len(c.ret.rows) < c.ret.prelimit ELSE TRUE])

\* PostgresTable.search(query, projection=1, limit=limit, offset=offset,
\* info=info) with a limit
search(c, q, limit, offset) == SearchInfo(SearchSelect(quick_count(c, q), q, limit, offset), limit, offset)

\* PostgresTable.lucky(query, projection=1.1): the first row, or None
lucky(c, q) ==
    IF Failed(c) THEN c
    ELSE IF BuildQueryError(c.mem, q, 1, 0) # "none" THEN Raise(c, BuildQueryError(c.mem, q, 1, 0))
    ELSE Return(Select(c), IF Selected(c, q, 1, 0) = <<>> THEN NoRow ELSE Selected(c, q, 1, 0)[1])

\* the value of a column, NULL after every other value (ORDER BY col)
NullsLast(v) == IF v = Nil THEN MaxVal + MaxReadRows + 1 ELSE v

\* the values of a set in ascending order
Ascending(S) ==
    CHOOSE s \in [1..Cardinality(S) -> S] :
        \A i, j \in 1..Cardinality(S) : i < j => NullsLast(s[i]) < NullsLast(s[j])

\* SELECT DISTINCT col FROM {search} [WHERE ...] ORDER BY col
DistinctValues(rows, col) == Ascending({rows[i][col] : i \in 1..Len(rows)})

\* cur.execute(query) without values: the placeholders of the text are sent
\* to the engine as they are, and the engine rejects them
DistinctOk(w, col, parsed) == col \in w.tab["s"].cols \cup {"id"} /\ parsed.vals = <<>>

\* PostgresTable.distinct(col, query)
distinct(c, col, q) ==
    IF Failed(c) THEN c
    ELSE IF _parse_dict(c.mem, QueryItems(q), NoOuter).err # "none"
         THEN Raise(c, _parse_dict(c.mem, QueryItems(q), NoOuter).err)
    ELSE Return(_execute(c, DistinctOk(c.wk, col, _parse_dict(c.mem, QueryItems(q), NoOuter)), c.wk, TRUE),
                DistinctValues(RowsMatching(c.wk.tab["s"].rows, q), col))

\* the number of draws of random
maxtries == 100

\* PostgresStatsTable.max("id"): self.count() - 1, and count() is the total
MaxOfId(c) == c.mem.total - 1

\* the i-th value of random.randint(1, maxid): draws.miss for the first
\* draws.misses draws, draws.hit after them
Draw(draws, i) == IF i <= draws.misses THEN draws.miss ELSE draws.hit

\* the turns lo..hi of the loop of random, one after the other (the first
\* half of them, then the second); c.ret is NoRow as long as every draw
\* missed, and the first draw that hits ends the loop
RECURSIVE RandomTries(_, _, _, _)
RandomTries(c, draws, lo, hi) ==
    IF Failed(c) \/ c.ret # NoRow THEN c
    ELSE IF lo = hi THEN lucky(c, QId(Draw(draws, lo)))
    ELSE RandomTries(RandomTries(c, draws, lo, (lo + hi) \div 2), draws, ((lo + hi) \div 2) + 1, hi)

\* raise RuntimeError("Random selection failed!") after the loop
RandomFailed(c) == IF ~Failed(c) /\ c.ret = NoRow THEN Raise(c, "runtime") ELSE c

\* PostgresTable.random(projection=1.1); randint raises ValueError for an
\* empty range.  The engine fails no statement, the first or the last.
random(c, draws) ==
    IF Failed(c) THEN c
    ELSE IF MaxOfId(c) < 1 THEN Raise(c, "value")
    ELSE RandomFailed(RandomTries(Return(c, NoRow), draws, 1, maxtries))

\* the ways the draws of one call can fall
DrawSet(maxid) ==
    IF maxid < 1 THEN {[misses |-> 0, miss |-> 1, hit |-> 1]}
    ELSE {[misses |-> n, miss |-> a, hit |-> b] : n \in {0, 1, maxtries}, a \in 1..maxid, b \in 1..maxid}

\* the rows of a table in service from which rows were deleted: ids out of
\* 1..MaxReadRows, k a value or NULL, e the id
ReadRow(i, kv, hasx) == Row(i, kv, IF hasx THEN Nil ELSE 1)

ReadTables(hasx) ==
    {Canon([p \in 1..Cardinality(ids) |-> ReadRow(Ascending(ids)[p], kf[Ascending(ids)[p]], hasx)]) :
        ids \in SUBSET (1..MaxReadRows), kf \in [1..MaxReadRows -> Vals \cup {Nil}]}

\* the counts table after add_stats(["k"]) (cached), or before it
ReadCounts(rows, cached) ==
    [q \in CountKeys |->
        IF q = QAll THEN Len(rows)
        ELSE IF cached /\ Len(RowsMatching(rows, q)) > 0 THEN Len(RowsMatching(rows, q))
        ELSE NoCount]

ReadDb(hasx, sort, rows, cached) ==
    [LoadedDb(hasx, sort, FALSE) EXCEPT
        !.tab["s"].rows = rows,
        !.tab["x"].rows = IF hasx THEN Canon([p \in 1..Len(rows) |-> Row(rows[p].id, Nil, 1)]) ELSE @,
        !.counts = ReadCounts(rows, cached),
        !.stats = IF cached THEN <<"total", "avg", "min", "max">> ELSE <<>>]

\* the object that PostgresDatabase.__init__ builds from the row of
\* meta_tables (count_cutoff is one of its columns)
InitRead ==
    \E hasx \in BOOLEAN, sort \in {"none", "asc"}, cached \in BOOLEAN, cutoff \in 1..MaxCutoff :
        \E rows \in ReadTables(hasx) :
            /\ db = ReadDb(hasx, sort, rows, cached)
            /\ wk = db
            /\ mem = [LoadedMem(hasx, sort, FALSE) EXCEPT !.total = Len(rows), !.count_cutoff = cutoff]
            /\ last = NoLast
            /\ nops = 0

SearchCall ==
    /\ nops < MaxReads
    /\ \E q \in ReadQueries, limit \in 1..MaxLimit, offset \in 0..MaxOffset :
          LET run(f) == search(Ctx(db, wk, mem, f, TRUE), q, limit, offset)
          IN  \E f \in 0..run(0).n :
                Finish(run(f), "search", [q |-> q, limit |-> limit, offset |-> offset, info |-> run(f).ret])

DistinctCall ==
    /\ nops < MaxReads
    /\ \E col \in {"id", "k"}, q \in ReadQueries :
          LET run(f) == distinct(Ctx(db, wk, mem, f, TRUE), col, q)
          IN  \E f \in 0..run(0).n :
                Finish(run(f), "distinct", [col |-> col, q |-> q, ret |-> run(f).ret])

RandomCall ==
    /\ nops < MaxReads
    /\ \E draws \in DrawSet(mem.total - 1) :
          LET run(f) == random(Ctx(db, wk, mem, f, TRUE), draws)
          IN  \E f \in {0, 1, run(0).n} :
                Finish(run(f), "random", [maxid |-> mem.total - 1, tries |-> run(f).n, ret |-> run(f).ret])

SpecRead == InitRead /\ [][SearchCall \/ DistinctCall \/ RandomCall]_vars

(* ------------------------------ projections --------------------------- *)

\* the columns of the tables in the order of information_schema
\* (ordinal_position), in which __init__ lists them
ColumnOrder == <<"k", "label", "e">>

\* self._search_cols and self._extra_cols as lists
InOrder(cols) == SelectSeq(ColumnOrder, LAMBDA col : col \in cols)

\* what _parse_projection returns: (search_cols, extra_cols, id_offset),
\* or the exception it raises
Resolved(search_cols, extra_cols, off) ==
    [err |-> "none", search |-> search_cols, extra |-> extra_cols, id_offset |-> off]

ProjectionError(kind) == [err |-> kind, search |-> <<>>, extra |-> <<>>, id_offset |-> 0]

\* a projection is a code (0, 1, 1.1, 2), a dictionary from names to
\* booleans, a list of names or a string
CodeProjection(n) == [kind |-> "code", code |-> n, map |-> <<>>, list |-> <<>>]

MapProjection(f) == [kind |-> "map", code |-> "", map |-> f, list |-> <<>>]

ListProjection(l) == [kind |-> "list", code |-> "", map |-> <<>>, list |-> l]

StringProjection(s) == [kind |-> "string", code |-> "", map |-> <<>>, list |-> IF s = "" THEN <<>> ELSE <<s>>]

\* lines 368-370 with id_offset always 0
IncludeIdNoOffset(search_cols, extra_cols, include_id) ==
    Resolved(IF include_id \/ extra_cols # <<>> THEN <<"id">> \o search_cols ELSE search_cols, extra_cols, 0)

\* lines 368-370: search_cols.insert(0, "id") and the id_offset
IncludeId(search_cols, extra_cols, include_id) ==
    Resolved(IF include_id \/ extra_cols # <<>> THEN <<"id">> \o search_cols ELSE search_cols,
             extra_cols,
             IF include_id \/ extra_cols = <<>> THEN 0 ELSE 1)

\* lines 323-337: the integer codes
ProjectCode(m, code) ==
    CASE code = "0" -> IF "label" \notin m.scols THEN ProjectionError("runtime")
                       ELSE Resolved(<<"label">>, <<>>, 0)
      [] code = "1" -> Resolved(InOrder(m.scols), <<>>, 0)
      [] code = "1.1" -> Resolved(<<"id">> \o InOrder(m.scols), <<>>, 0)
      [] code = "2" -> IF ~m.extra THEN Resolved(InOrder(m.scols), <<>>, 0)
                       ELSE Resolved(<<"id">> \o InOrder(m.scols), InOrder(m.ecols), 1)

\* projvals = set(bool(val) for val in projection.values())
MapValues(f) == {f[n] : n \in DOMAIN f}

\* projvals after "including = projvals.pop()": the set had one element
PoppedValues(f) == {}

\* the loop over self._search_cols of lines 344-347
MapSearch(m, f) ==
    SelectSeq(InOrder(m.scols), LAMBDA col : (col \in DOMAIN f) = (TRUE \in MapValues(f)))

\* the loop over self._extra_cols of lines 348-352, which tests
\* "col in projvals"
MapExtra(m, f) ==
    IF ~m.extra THEN <<>>
    ELSE SelectSeq(InOrder(m.ecols), LAMBDA col : (col \in PoppedValues(f)) = (TRUE \in MapValues(f)))

\* the keys left in the dictionary after the pops of lines 343-352
MapRest(m, f) == DOMAIN f \ ({"id"} \cup m.scols \cup (IF m.extra THEN m.ecols ELSE {}))

\* lines 338-354: a dictionary
ProjectMap(m, f) ==
    IF Cardinality(MapValues(f)) > 1 THEN ProjectionError("value")
    ELSE IF MapRest(m, f) # {} THEN ProjectionError("value")
    ELSE IncludeId(MapSearch(m, f), MapExtra(m, f), "id" \in DOMAIN f /\ f["id"])

\* lines 355-367: a list of names, or the list made of a string
ProjectList(m, l) ==
    IF \E i \in 1..Len(l) : l[i] \notin m.scols \cup m.ecols \cup {"id"} THEN ProjectionError("value")
    ELSE IncludeId(SelectSeq(l, LAMBDA col : col \in m.scols),
                   SelectSeq(l, LAMBDA col : col \notin m.scols /\ col \in m.ecols),
                   \E i \in 1..Len(l) : l[i] \notin m.scols \cup m.ecols)

\* PostgresTable._parse_projection(projection)
_parse_projection(m, P) ==
    IF P.kind = "code" /\ P.code = "0" THEN ProjectCode(m, "0")
    ELSE IF (P.kind = "map" /\ DOMAIN P.map = {}) \/ (P.kind \in {"list", "string"} /\ P.list = <<>>)
         THEN ProjectionError("value")
    ELSE IF P.kind = "code" THEN ProjectCode(m, P.code)
    ELSE IF P.kind = "map" THEN ProjectMap(m, P.map)
    ELSE ProjectList(m, P.list)

\* PostgresTable.lookup(label, projection): the ValueError of a table
\* without label column, else lucky({label_col: label}, projection), which
\* resolves the projection first
lookup(c, P) ==
    IF Failed(c) THEN c
    ELSE IF c.mem.label_col = "none" THEN Raise(c, "value")
    ELSE IF _parse_projection(c.mem, P).err # "none" THEN Raise(c, _parse_projection(c.mem, P).err)
    ELSE Return(Select(c), _parse_projection(c.mem, P))

\* the names asked for: columns, id, and a name of no column
ProjectionNames == {"id", "k", "e", "label", "zz"}

ProjectionSet ==
    {CodeProjection(n) : n \in {"0", "1", "1.1", "2"}}
        \cup {MapProjection(f) : f \in UNION {[S -> BOOLEAN] : S \in SUBSET ProjectionNames}}
        \cup {ListProjection(l) : l \in UNION {[1..n -> ProjectionNames] : n \in 0..MaxListed}}
        \cup {StringProjection(s) : s \in ProjectionNames \cup {""}}

\* a new table with or without extras table, with or without a column
\* named label, whose label_col is None or one of its search columns
InitProjection ==
    \E hasx \in BOOLEAN, named \in BOOLEAN :
        \E lc \in {"none", "k"} \cup (IF named THEN {"label"} ELSE {}) :
            /\ db = [InitDb(hasx, "none", FALSE) EXCEPT !.tab["s"].cols = IF named THEN @ \cup {"label"} ELSE @]
            /\ wk = db
            /\ mem = [InitMem(hasx, "none", FALSE) EXCEPT !.scols = IF named THEN @ \cup {"label"} ELSE @,
                                                          !.label_col = lc]
            /\ last = NoLast
            /\ nops = 0

ParseProjection ==
    /\ nops < MaxProjections
    /\ \E P \in ProjectionSet :
          Finish(Raised(Ctx(db, wk, mem, 0, TRUE), _parse_projection(mem, P)), "_parse_projection",
                 [P |-> P, out |-> _parse_projection(mem, P)])

Lookup ==
    /\ nops < MaxProjections
    /\ \E P \in {CodeProjection(n) : n \in {"0", "1", "2"}} :
          LET run(f) == lookup(Ctx(db, wk, mem, f, TRUE), P)
          IN  \E f \in 0..run(0).n : Finish(run(f), "lookup", [P |-> P, out |-> run(f).ret])

SpecProjection == InitProjection /\ [][ParseProjection \/ Lookup]_vars

(* ------------------------- writes after deletions -------------------- *)

\* insert_many, upsert and copy_from on a table in service from which rows
\* were deleted (delete leaves the ids of the remaining rows as they are
\* and keeps total at the number of rows)
SpecIds == InitRead /\ [][(InsertMany \/ Upsert \/ CopyFrom) /\ nops < MaxServiceWrites]_vars

(* ------------------------------ two writers --------------------------- *)

\* Two PostgresTable objects for the same table, each on a connection of
\* its own.  db is the committed database, wk[w] what the connection of
\* writer w sees (the committed database and its own uncommitted rows),
\* mem[w] the attributes of its object, last the calls under way: the call
\* of each writer, the statement it is at, and how it ended.
Writers == {1, 2}

Other(w) == 3 - w

\* rows without one occurrence of each row of sub
RECURSIVE Minus(_, _)
Minus(rows, sub) ==
    IF rows = <<>> THEN <<>>
    ELSE IF \E i \in 1..Len(sub) : sub[i] = Head(rows)
         THEN Minus(Tail(rows), SelectSeq(sub, LAMBDA r : r # Head(rows))
                                    \o Tail(SelectSeq(sub, LAMBDA r : r = Head(rows))))
         ELSE <<Head(rows)>> \o Minus(Tail(rows), sub)

\* the rows a writer has inserted and not committed
Pending(w) == Minus(SRows(wk[w]), SRows(db))

\* what a connection sees of a committed database: READ COMMITTED shows
\* it the committed rows and its own
View(d, pending) == [d EXCEPT !.tab["s"].rows = Canon(@ \o pending)]

\* the calls of a writer: insert_many(search_data, reindex=...) of one row,
\* or the upsert of a row that no row matches
WriterCalls == {[op |-> "insert_many", reindex |-> r] : r \in BOOLEAN} \cup {[op |-> "upsert", reindex |-> FALSE]}

WriterData(w) == <<DataRow(1, w)>>

WriterCtx(w) == Ctx(db, wk[w], mem[w], 0, TRUE)

\* lines 1450-1451: SD["id"] = self.stats.total + i + 1
WriterRows(w) ==
    [i \in 1..Len(WriterData(w)) |-> Row(mem[w].total + i, WriterData(w)[i].k, WriterData(w)[i].e)]

\* the state after writer w ran statements that left the context c: what
\* it committed every connection sees
WriterStep(w, c, pc) ==
    /\ db' = c.db
    /\ wk' = [x \in Writers |-> IF x = w THEN c.wk ELSE View(c.db, Pending(x))]
    /\ mem' = [mem EXCEPT ![w] = c.mem]
    /\ last' = [last EXCEPT !.pc[w] = IF Failed(c) THEN "raised" ELSE pc, !.errs[w] = c.err]
    /\ nops' = nops + 1

\* an ALTER TABLE waits for every transaction that wrote to the table
TableLockFree(w) == Pending(Other(w)) = <<>>

\* an INSERT under a primary key waits for a transaction that inserted the
\* same id and has not ended
IdLockFree(w) ==
    db.tab["s"].pkey = "none"
        \/ \A i \in 1..Len(WriterRows(w)), j \in 1..Len(Pending(Other(w))) :
               WriterRows(w)[i].id # Pending(Other(w))[j].id

\* lines 1447-1449: drop_pkeys(); drop_indexes()
WriterDrop(w) ==
    /\ last.pc[w] = "start" /\ last.call[w].op = "insert_many" /\ last.call[w].reindex
    /\ TableLockFree(w)
    /\ WriterStep(w, DropForInsert(WriterCtx(w), TRUE), "insert")

\* lines 1450-1463: the INSERT, with commit=False
WriterInsert(w) ==
    /\ last.call[w].op = "insert_many"
    /\ last.pc[w] = "insert" \/ (last.pc[w] = "start" /\ ~last.call[w].reindex)
    /\ IdLockFree(w)
    /\ WriterStep(w, InsertRows(WriterCtx(w), "s", WriterRows(w)), "count")

\* lines 1465-1469: the flags, the total, the counts row, the commit
WriterCount(w) ==
    /\ last.pc[w] = "count"
    /\ WriterStep(w, conn_commit(RecordTotal(AddTotal(_break_stats(_break_order(WriterCtx(w))),
                                                     Len(WriterData(w))))), "restore")

\* lines 1470-1476: resort(), restore_pkeys(), restore_indexes(),
\* refresh_stats()
WriterRestore(w) ==
    /\ last.pc[w] = "restore"
    /\ last.call[w].reindex => TableLockFree(w)
    /\ WriterStep(w, RefreshIf(RestoreAfterInsert(ResortIf(WriterCtx(w), TRUE), last.call[w].reindex), TRUE), "done")

\* upsert({"k": 2}, data); no row has k = 2, so it is the insertion branch
WriterUpsert(w) ==
    /\ last.pc[w] = "start" /\ last.call[w].op = "upsert"
    /\ WriterStep(w, upsert(WriterCtx(w), QK(2), DataRow(Nil, w)), "done")

\* a new table (no primary key), or a table in service (one row, primary
\* key, index); both objects were made from it
InitWriters ==
    \E loaded \in BOOLEAN, call \in [Writers -> WriterCalls] :
        /\ db = IF loaded THEN LoadedDb(FALSE, "none", FALSE) ELSE InitDb(FALSE, "none", FALSE)
        /\ wk = [w \in Writers |-> db]
        /\ mem = [w \in Writers |-> IF loaded THEN LoadedMem(FALSE, "none", FALSE) ELSE InitMem(FALSE, "none", FALSE)]
        /\ last = [op |-> "writers", call |-> call,
                   pc |-> [w \in Writers |-> "start"], errs |-> [w \in Writers |-> "none"]]
        /\ nops = 0

WriterNext(w) == WriterDrop(w) \/ WriterInsert(w) \/ WriterCount(w) \/ WriterRestore(w) \/ WriterUpsert(w)

SpecWriters == InitWriters /\ [][\E w \in Writers : WriterNext(w)]_vars

(* --------------------------- stored statistics ------------------------ *)

\* PostgresStatsTable.max("k") as a call
StatsMax ==
    /\ CanCall
    /\ LET run(f) == max(Ctx(db, wk, mem, f, TRUE))
       IN  \E f \in 0..run(0).n : Finish(run(f), "max", <<>>)

\* add_stats(["k"]) and max("k") on a table in service, whose statistics
\* were added before or not
SpecStats == InitRead /\ [][AddStats \/ StatsMax]_vars

(* -------------------------------- rewrite ----------------------------- *)

\* the functions handed to rewrite: "return rec", and
\* "rec['k'] = 2; return rec"
Transforms == {"identity", "set_k"}

Apply(func, r) == IF func = "set_k" THEN [r EXCEPT !.k = 2] ELSE r

\* line 1298, search(query, projection, sort=[]) with limit=None: one
\* SELECT on the search table
FoundRows(c, q) == RowsMatching(c.wk.tab["s"].rows, q)

RECURSIVE Selects(_, _)
Selects(c, n) == IF n = 0 THEN c ELSE Selects(Select(c), n - 1)

\* lines 637-642 (_search_iterator): one SELECT on the extras table for each
\* row found; fetchone() is None when the extras table has no row of the id
ExtrasLookups(c, q) ==
    IF Failed(c) \/ ~c.mem.extra THEN c
    ELSE IF \E i \in 1..Len(FoundRows(c, q)) : FoundRows(c, q)[i].id \notin Ids(c.wk.tab["x"])
         THEN Raise(Select(c), "type")
         ELSE Selects(c, Len(FoundRows(c, q)))

\* the value of column e of the record of a row
RecordExtra(c, r) ==
    IF c.mem.extra
    THEN (CHOOSE x \in {c.wk.tab["x"].rows[j] : j \in 1..Len(c.wk.tab["x"].rows)} : x.id = r.id).e
    ELSE r.e

\* lines 1298-1302: the lines written to the search file and to the extras
\* file, one for each record found, with the id of the record
SearchLines(c, func, q) ==
    [i \in 1..Len(FoundRows(c, q)) |->
        LET r == FoundRows(c, q)[i]
            p == Apply(func, Row(r.id, r.k, RecordExtra(c, r)))
        IN  Row(p.id, p.k, IF c.mem.extra THEN Nil ELSE p.e)]

ExtraLines(c, func, q) ==
    [i \in 1..Len(FoundRows(c, q)) |->
        LET r == FoundRows(c, q)[i]
            p == Apply(func, Row(r.id, r.k, RecordExtra(c, r)))
        IN  Row(p.id, Nil, p.e)]

\* _clone and _copy_from of a file whose lines carry the ids they were
\* written with
LoadLines(c, base, rows) ==
    LET cloned == _clone(c, base)
    IN  IF Failed(cloned) THEN cloned
        ELSE Return(_cursor_copy(cloned, InsertOk(cloned.wk.tab[TName(base, "_tmp")], rows),
                                 [cloned.wk EXCEPT !.tab[TName(base, "_tmp")].rows = Canon(@ \o rows)]),
                    Len(rows))

\* line 1303: reload(searchfile.name, extrafile.name, includes_ids=True,
\* resort, reindex, restat) of the two files just written
ReloadLines(c, srows, xrows, resortArg, reindex, restat) ==
    IF Failed(c) THEN c
    ELSE LET Loaded(x) == IF c.mem.extra THEN LoadLines(LoadLines(x, "s", srows), "x", xrows)
                          ELSE LoadLines(x, "s", srows)
             Keyed(x) == IF c.mem.id_ordered /\ resortArg
                         THEN resort(x, "_tmp", TRUE, TRUE)
                         ELSE restore_pkeys(x, "_tmp", TRUE)
             Indexed(x) == IF reindex THEN restore_indexes(x, "_tmp") ELSE x
         IN  conn_commit(_swap_in_tmp(RefreshIf(Indexed(Keyed(Loaded(c))), restat), restat, reindex))

\* PostgresTable.rewrite(func, query, resort, reindex, restat)
rewrite(c, func, q, resortArg, reindex, restat) ==
    IF Failed(c) THEN c
    ELSE LET found == ExtrasLookups(Select(c), q)
         IN  IF Failed(found) THEN found
             ELSE ReloadLines(found, SearchLines(found, func, q), ExtraLines(found, func, q),
                              resortArg, reindex, restat)

RewriteQueries == {QAll, QK(1), QId(1)}

Rewrite ==
    /\ nops < MaxRewrites
    /\ \E func \in Transforms, q \in RewriteQueries, rs \in BOOLEAN, ri \in BOOLEAN, rt \in BOOLEAN :
          LET run(f) == rewrite(Ctx(db, wk, mem, f, TRUE), func, q, rs, ri, rt)
          IN  \E f \in 0..run(0).n :
                Finish(run(f), "rewrite", [func |-> func, q |-> q, restat |-> rt])

\* one rewrite of a table in service
SpecRewrite == InitRead /\ [][Rewrite]_vars

(* ---------------------- create_table and drop_table ------------------- *)

\* One table name of a PostgresDatabase.  db and wk are the committed
\* database and what the connection sees of it: which of the four tables of
\* the name exist, whether meta_tables has the row of the name and whether
\* meta_indexes has rows for it.  mem is the PostgresDatabase object:
\* whether the name is in self.tablenames, and the PostgresTable at
\* self.__dict__[name] ("none", or whether it has an extra_table).
TableParts == {"search", "extras", "counts", "stats"}

NoTables == [tables |-> {}, meta |-> FALSE, indexes |-> FALSE]

NoObject == [listed |-> FALSE, attr |-> "none"]

\* the column specifications handed to create_table: search_columns of
\* valid types or with a type that is not whitelisted; extra_columns None,
\* valid, naming a column twice, or with a type that is not whitelisted
SearchSpecs == {"valid", "bad_type"}

ExtraSpecs == {"none", "valid", "repeated", "bad_type"}

\* CREATE TABLE {name}, commit=False
CreatePart(c, part) ==
    IF Failed(c) THEN c
    ELSE _execute(c, part \notin c.wk.tables, [c.wk EXCEPT !.tables = @ \cup {part}], FALSE)

\* DROP TABLE {name}, commit=False
DropPart(c, part) ==
    IF Failed(c) THEN c
    ELSE _execute(c, part \in c.wk.tables, [c.wk EXCEPT !.tables = @ \ {part}], FALSE)

\* PostgresDatabase._grant(action, table_name, users, commit): one GRANT for
\* each user, then the commit
RECURSIVE Grants(_, _)
Grants(c, users) == IF users = 0 THEN c ELSE Grants(Statement(c, TRUE), users - 1)

_grant(c, users, commit) == IF commit THEN conn_commit(Grants(c, users)) ELSE Grants(c, users)

\* users=['lmfdb', 'webserver'], commit=True
grant_select(c) == _grant(c, 2, TRUE)

\* users=['webserver'], commit=True
grant_insert(c) == _grant(c, 1, TRUE)

\* lines 2667-2679: the checks of extra_columns and process_columns
CheckExtras(c, extraSpec) ==
    IF extraSpec \in {"repeated", "bad_type"} THEN Raise(c, "value") ELSE c

\* lines 2667-2685
CreateExtrasPart(c, extraSpec) ==
    IF Failed(c) \/ extraSpec = "none" THEN c
    ELSE grant_select(CreatePart(CheckExtras(c, extraSpec), "extras"))

\* INSERT INTO meta_tables, commit=False
InsertCatalogRow(c) ==
    IF Failed(c) THEN c
    ELSE _execute(c, ~c.wk.meta, [c.wk EXCEPT !.meta = TRUE], FALSE)

\* PostgresTable.__init__ and PostgresStatsTable.__init__: the SELECTs of
\* the column types, quick_count({}), _slow_count({}, record=True) with the
\* quick_count and the INSERT of _record_count; then lines 2699-2701
Register(c, hasx) ==
    LET made == Selects(c, IF hasx THEN 6 ELSE 5)
    IN  SetMem(made, [listed |-> TRUE, attr |-> IF hasx THEN "extras" ELSE "plain"])

\* PostgresDatabase.create_table(name, search_columns, ..., extra_columns)
create_table(c, searchSpec, extraSpec) ==
    IF Failed(c) THEN c
    ELSE IF c.mem.listed THEN Raise(c, "value")
    ELSE IF searchSpec = "bad_type" THEN Raise(c, "value")
    ELSE LET searched == grant_select(CreatePart(c, "search"))
             counted == grant_insert(grant_select(CreatePart(CreateExtrasPart(searched, extraSpec), "counts")))
             statted == grant_select(CreatePart(counted, "stats"))
         IN  Register(conn_commit(InsertCatalogRow(statted)), extraSpec = "valid")

\* DELETE FROM meta_indexes WHERE table_name = %s, commit=False
DeleteIndexRows(c) ==
    IF Failed(c) \/ ~c.wk.indexes THEN c
    ELSE _execute(c, TRUE, [c.wk EXCEPT !.indexes = FALSE], FALSE)

\* DELETE FROM meta_tables WHERE name = %s, commit=False
DeleteCatalogRow(c) ==
    IF Failed(c) THEN c
    ELSE _execute(c, TRUE, [c.wk EXCEPT !.meta = FALSE], FALSE)

\* lines 2712-2717
DropParts(c) ==
    LET x == IF ~Failed(c) /\ c.mem.attr = "extras" THEN DropPart(c, "extras") ELSE c
    IN  DropPart(DropPart(DropPart(x, "search"), "counts"), "stats")

\* self.tablenames.remove(name)
Unlist(c) == SetMem(c, [c.mem EXCEPT !.listed = FALSE])

\* PostgresDatabase.drop_table(name, commit=True)
drop_table(c) ==
    IF Failed(c) THEN c
    ELSE IF ~c.mem.listed THEN Raise(c, "value")
    ELSE conn_commit(Unlist(DropParts(DeleteCatalogRow(DeleteIndexRows(Select(c))))))

\* PostgresTable.create_index of the table of the name: CREATE INDEX and
\* the INSERT into meta_indexes, committed together
IndexTable(c) ==
    IF Failed(c) THEN c
    ELSE LET looked == Select(c)
         IN  IF Failed(looked) THEN looked
             ELSE IF looked.wk.indexes THEN Raise(looked, "value")
             ELSE conn_commit(_execute(_execute(looked, "search" \in looked.wk.tables, looked.wk, FALSE),
                                       TRUE, [looked.wk EXCEPT !.indexes = TRUE], FALSE))

\* a database that has no table of the name
InitCreate ==
    /\ db = NoTables
    /\ wk = db
    /\ mem = NoObject
    /\ last = NoLast
    /\ nops = 0

CreateTable ==
    /\ nops < MaxCreateOps
    /\ \E searchSpec \in SearchSpecs, extraSpec \in ExtraSpecs :
          LET run(f) == create_table(Ctx(db, wk, mem, f, TRUE), searchSpec, extraSpec)
          IN  \E f \in 0..run(0).n :
                Finish(run(f), "create_table", [search |-> searchSpec, extras |-> extraSpec])

DropTable ==
    /\ nops < MaxCreateOps
    /\ LET run(f) == drop_table(Ctx(db, wk, mem, f, TRUE))
       IN  \E f \in 0..run(0).n : Finish(run(f), "drop_table", <<>>)

CreateIndexOnTable ==
    /\ nops < MaxCreateOps
    /\ mem.attr # "none"
    /\ LET run(f) == IndexTable(Ctx(db, wk, mem, f, TRUE))
       IN  \E f \in 0..run(0).n : Finish(run(f), "create_index", <<>>)

SpecCreate == InitCreate /\ [][CreateTable \/ DropTable \/ CreateIndexOnTable]_vars

(* --------------------------- bucketed statistics ---------------------- *)

\* Python's sorted() of a list of numbers
RECURSIVE InsertSorted(_, _)
InsertSorted(s, x) ==
    IF s = <<>> THEN <<x>>
    ELSE IF x <= Head(s) THEN <<x>> \o s
    ELSE <<Head(s)>> \o InsertSorted(Tail(s), x)

RECURSIVE sorted(_)
sorted(s) == IF s = <<>> THEN <<>> ELSE InsertSorted(sorted(Tail(s)), Head(s))

\* divisions = [None] + sorted(divisions) + [None]
Padded(divisions) == <<Nil>> \o sorted(divisions) \o <<Nil>>

\* the dictionary of one window (a, b, c, d) of the padded break points:
\* {col: b} when b == c, else {col: {"$gt" or "$gte": b, "$lt" or "$lte": c}}
Bucket(col, a, b, c, d, include_upper) ==
    IF b = c THEN <<Lit(col, <<>>, b)>>
    ELSE <<Ops(col, <<>>,
               <<Lit(IF include_upper \/ a = b THEN "$gt" ELSE "$gte", <<>>, b),
                 Lit(IF ~include_upper \/ c = d THEN "$lt" ELSE "$lte", <<>>, c)>>)>>

\* expanded_buckets[-1] for one column: one dictionary for each window of
\* zip(divisions[:-3], divisions[1:-2], divisions[2:-1], divisions[3:])
Expanded(col, p, include_upper) ==
    [i \in 1..(Len(p) - 3) |-> Bucket(col, p[i], p[i + 1], p[i + 2], p[i + 3], include_upper)]

\* bucketed_constraint = dict(constraint); bucketed_constraint.update(D)
Updated(constraint, D) == SelectSeq(constraint, LAMBDA it : it.name # D[1].name) \o D

\* PostgresStatsTable._split_buckets({col: divisions}, constraint,
\* include_upper): the dictionaries it yields, or the ValueError
_split_buckets(col, divisions, constraint, include_upper) ==
    IF Len(divisions) < 2 THEN [err |-> "value", queries |-> <<>>]
    ELSE [err |-> "none",
          queries |-> [i \in 1..(Len(divisions) - 1) |->
                          Updated(constraint, Expanded(col, Padded(divisions), include_upper)[i])]]

\* what the engine makes of the comparison that _parse_special writes for
\* the key: a comparison with NULL is not true
Compares(key, v, lit) ==
    /\ v # Nil
    /\ CASE key = "$gt" -> v > lit
         [] key = "$gte" -> v >= lit
         [] key = "$lt" -> v < lit
         [] key = "$lte" -> v <= lit
         [] OTHER -> FALSE

\* whether a row satisfies the WHERE clause that _parse_dict writes for a
\* dictionary of equalities and comparisons
ItemHolds(it, r) ==
    IF it.vt = "lit" THEN IF it.lit = Nil THEN r[it.name] = Nil ELSE r[it.name] = it.lit
    ELSE \A j \in 1..Len(it.sub[1]) : Compares(it.sub[1][j].name, r[it.name], it.sub[1][j].lit)

Holds(D, r) == \A i \in 1..Len(D) : ItemHolds(D[i], r)

\* SELECT COUNT(*) FROM {search} WHERE {the dictionary}
BucketCount(rows, D) == Len(SelectSeq(rows, LAMBDA r : Holds(D, r)))

\* lists of up to MaxBreaks break points out of 1..MaxBreak, in any order
DivisionSet == UNION {[1..n -> 1..MaxBreak] : n \in 0..MaxBreaks}

\* tables of up to MaxBucketRows rows whose column k holds a number from
\* below the least to above the greatest break point, or NULL; e is 1
BucketTables ==
    UNION {[1..n -> {Row(0, kv, 1) : kv \in (0..(MaxBreak + 1)) \cup {Nil}}] : n \in 0..MaxBucketRows}

Numbered(rows) == [i \in 1..Len(rows) |-> [rows[i] EXCEPT !.id = i]]

InitBuckets ==
    \E rows \in BucketTables :
        /\ db = ReadDb(FALSE, "none", Numbered(rows), FALSE)
        /\ wk = db
        /\ mem = [LoadedMem(FALSE, "none", FALSE) EXCEPT !.total = Len(rows)]
        /\ last = NoLast
        /\ nops = 0

SplitBuckets ==
    /\ nops < MaxSplits
    /\ \E divisions \in DivisionSet, include_upper \in BOOLEAN, constraint \in {<<>>, <<Lit("e", <<>>, 1)>>} :
          LET out == _split_buckets("k", divisions, constraint, include_upper)
          IN  Finish(Raised(Ctx(db, wk, mem, 0, TRUE), out), "_split_buckets",
                     [divisions |-> divisions, include_upper |-> include_upper, constraint |-> constraint,
                      queries |-> out.queries])

SpecBuckets == InitBuckets /\ [][SplitBuckets]_vars

(* ------------------------------ properties ---------------------------- *)

\* the number of search rows a query matches, as the connection sees them
MatchCount(w, q) == Len(RowsMatching(w.tab["s"].rows, q))

\* a committed state in which every live object carries a live name, the
\* search and extras tables hold data of the same load, and every backup
\* carries its backup names
HalfSwapFree(d) ==
    /\ d.tab["s"].ex
    /\ d.tab["x"].ex => d.tab["x"].gen = d.tab["s"].gen
    /\ \A t \in {"s", "x"} : d.tab[t].pkey \in {"none", ""} /\ d.tab[t].ix \in {"none", ""}
    /\ \A o \in d.old : o.pkey = OldSfx(o.n) /\ o.ix \in {"none", OldSfx(o.n)}

\* C1: whatever statement fails, no committed state is half swapped, and
\* the data under the live names changes load only in a reload that
\* returns normally, by exactly one load and with both tables at once.
C1_SwapIsAtomic ==
    [][/\ HalfSwapFree(db')
       /\ db'.tab["s"].gen # db.tab["s"].gen =>
             /\ last'.op = "reload"
             /\ last'.err = "none"
             /\ db'.tab["s"].gen = db.tab["s"].gen + 1
             /\ ~db'.tab["s_tmp"].ex /\ ~db'.tab["x_tmp"].ex]_vars

\* a reload that swapped search table, extras table, primary keys and index
C1_Swapped ==
    /\ last.op = "reload"
    /\ last.err = "none"
    /\ db.tab["x"].ex
    /\ db.tab["s"].gen = 1
    /\ db.tab["s"].pkey = "" /\ db.tab["x"].pkey = ""
    /\ db.tab["s"].ix = ""
    /\ \E o \in db.old : o.base = "s" /\ o.ix = OldSfx(1) /\ o.pkey = OldSfx(1)

\* C2: a reload whose extras file is one line short raises, and commits
\* nothing and changes no attribute; when the mismatch itself is what
\* stops it, the connection is rolled back to the committed state.
C2_MismatchAborts ==
    [][(last'.op = "reload" /\ last'.arg.ex = "short") =>
          /\ last'.err # "none"
          /\ db' = db
          /\ mem' = mem
          /\ last'.err = "runtime" => wk' = db]_vars

\* a reload of a table in service stopped by the mismatch
C2_Mismatch ==
    /\ last.op = "reload"
    /\ last.arg.ex = "short"
    /\ last.err = "runtime"
    /\ Len(SRows(db)) = 1
    /\ db.tab["s"].pkey = "" /\ db.tab["s"].ix = ""
    /\ ~db.tab["s_tmp"].ex

\* the committed state of the live tables: rows, primary keys, indexes, flags
CommittedLive(d) == [s |-> d.tab["s"], x |-> d.tab["x"], meta |-> d.meta, cat_ix |-> d.cat_ix]

\* C3: when a statement fails in reload, resort or insert_many with
\* reindex=True (called with nothing pending on the connection), the
\* committed live rows, primary keys, indexes and catalog flags are those
\* of before the call.
C3_FailureKeepsCommitted ==
    [][(/\ wk = db
        /\ last'.err = "db"
        /\ \/ last'.op \in {"reload", "resort"}
           \/ last'.op = "insert_many" /\ last'.arg.reindex) =>
          CommittedLive(db') = CommittedLive(db)]_vars

\* C4: after calls that all returned normally, a table with an extras
\* table has the same ids, and as many rows, in both tables.
C4_SameIds ==
    (last.clean /\ mem.extra /\ db.tab["x"].ex) =>
        /\ Ids(db.tab["s"]) = Ids(db.tab["x"])
        /\ Len(SRows(db)) = Len(XRows(db))

\* the rows read in id order are in the order of the sort
SortedById(rows, sort) ==
    \A i, j \in 1..Len(rows) : rows[i].id < rows[j].id => SortKey(sort, rows[i]) <= SortKey(sort, rows[j])

\* an id-ordered table whose out_of_order flag is false has its live search
\* rows sorted when read in id order
FlagClearMeansSorted(d) ==
    (d.meta.id_ordered /\ ~d.meta.out_of_order) => SortedById(SRows(d), d.meta.sort)

\* C5: in every committed state of an id-ordered table whose out_of_order
\* flag is false the live search rows are sorted when read in id order; in
\* particular a reload that does not complete, whatever it did to its
\* staging tables, commits no state that breaks this.
C5_SortedWhenFlagClear ==
    [][(FlagClearMeansSorted(db) /\ last'.op = "reload" /\ last'.err # "none") =>
          FlagClearMeansSorted(db')]_vars

\* C6: after calls that all returned normally, count(query) is the number
\* of rows search(query) yields, for every query.
C6_CountIsLength ==
    last.clean => \A q \in Queries : Count(wk, mem, q) = Len(Search(wk, q))

\* C7: an upsert whose query matches two or more rows raises, changes no
\* attribute (total, flags), and leaves every row and catalog flag the
\* connection sees as it was; if the engine fails its SELECT, the
\* connection is rolled back and nothing is committed.
C7_AmbiguousUpsertChangesNothing ==
    [][(last'.op = "upsert" /\ MatchCount(wk, last'.arg.q) >= 2) =>
          /\ last'.err # "none"
          /\ mem' = mem
          /\ IF last'.err = "db" THEN db' = db /\ wk' = db ELSE wk' = wk]_vars

\* an upsert refused because two rows match
C7_Ambiguous ==
    /\ last.op = "upsert"
    /\ last.err = "value"
    /\ MatchCount(wk, last.arg.q) = 2
    /\ Named(last.arg.data) # {}

\* the arguments of an upsert name columns the tables have, and the
\* attributes of the object agree with the tables
UpsertWellFormed(w, m, q, data) ==
    /\ q # QAll
    /\ Named(data) # {}
    /\ w.tab["s"].ex /\ m.scols = w.tab["s"].cols
    /\ m.extra = w.tab["x"].ex
    /\ m.extra => m.ecols = w.tab["x"].cols
    /\ q.col \in {"id"} \cup w.tab["s"].cols
    /\ Named(data) \subseteq w.tab["s"].cols \cup w.tab["x"].cols

\* C8: unless the engine breaks down, an upsert whose query matches no row
\* returns normally, has inserted one row of id total + 1 with the values
\* of data merged with the query's equality field (into both tables when
\* there are two), and has increased total by 1.
C8_UpsertInserts ==
    [][(/\ last'.op = "upsert"
        /\ ~last'.inj
        /\ UpsertWellFormed(wk, mem, last'.arg.q, last'.arg.data)
        /\ MatchCount(wk, last'.arg.q) = 0) =>
          /\ last'.err = "none"
          /\ mem'.total = mem.total + 1
          /\ Len(SRows(wk')) = Len(SRows(wk)) + 1
          /\ \E i \in 1..Len(SRows(wk')) :
                /\ SRows(wk')[i].id = mem.total + 1
                /\ last'.arg.q.col = "k" => SRows(wk')[i].k = IF last'.arg.data.k # Nil THEN last'.arg.data.k ELSE last'.arg.q.val
          /\ mem.extra => \E i \in 1..Len(XRows(wk')) : XRows(wk')[i].id = mem.total + 1]_vars

\* C9: unless the engine breaks down, an upsert whose query matches one
\* row returns normally, has set the named columns on that row and changed
\* nothing else in the tables, has left total alone, has set out_of_order
\* if k, the sort key, is named, and has committed.
C9_UpsertUpdates ==
    [][(/\ last'.op = "upsert"
        /\ ~last'.inj
        /\ UpsertWellFormed(wk, mem, last'.arg.q, last'.arg.data)
        /\ MatchCount(wk, last'.arg.q) = 1) =>
          LET rowid == RowsMatching(SRows(wk), last'.arg.q)[1].id
              data == last'.arg.data
          IN  /\ last'.err = "none"
              /\ SRows(wk') = UpdateRows(SRows(wk), Named(data) \cap wk.tab["s"].cols, data, rowid)
              /\ mem.extra => XRows(wk') = UpdateRows(XRows(wk), Named(data) \cap wk.tab["x"].cols, data, rowid)
              /\ mem'.total = mem.total
              /\ ("k" \in Named(data) /\ mem.sort # "none") => (mem'.out_of_order /\ wk'.meta.out_of_order)
              /\ db' = wk']_vars

\* the arguments insert_many rejects
InsertRejected(m, arg) ==
    \/ arg.data = <<>>
    \/ (arg.ex = "absent") = m.extra
    \/ arg.ex = "short"

\* the rows insert_many adds to a table: ids total + 1, ... in input order
Appended(t, m, data, inSearch) ==
    [i \in 1..Len(data) |-> Row(m.total + i, IF inSearch THEN data[i].k ELSE Nil, ColVal(t, "e", data[i].e))]

\* total, the cached count of the empty query and stats_valid after an
\* insert_many of the data
InsertCounted(data) ==
    /\ mem'.total = mem.total + Len(data)
    /\ wk'.counts[QAll] = mem.total + Len(data)
    /\ ~mem'.stats_valid /\ ~wk'.meta.stats_valid

\* the ids are total + 1, ... in input order, the same in both tables, and
\* out_of_order is set
InsertAppended(data) ==
    /\ SRows(wk') = Canon(SRows(wk) \o Appended(wk.tab["s"], mem, data, TRUE))
    /\ mem.extra => XRows(wk') = Canon(XRows(wk) \o Appended(wk.tab["x"], mem, data, FALSE))
    /\ mem'.out_of_order /\ wk'.meta.out_of_order

\* the rows so numbered were then renumbered by the sort, and out_of_order
\* is cleared
InsertResorted(data) ==
    /\ \E tb \in BOOLEAN :
          LET srows == Canon(SRows(wk) \o Appended(wk.tab["s"], mem, data, TRUE))
              xrows == Canon(XRows(wk) \o Appended(wk.tab["x"], mem, data, FALSE))
          IN  /\ SRows(wk') = RenumberSearch(srows, mem.sort, tb)
              /\ mem.extra => XRows(wk') = RenumberExtras(xrows, srows, mem.sort, tb)
    /\ ~mem'.out_of_order /\ ~wk'.meta.out_of_order

\* C10: insert_many of n rows gives them the ids total + 1 .. total + n in
\* input order (the same in both tables), adds n to total, records the new
\* total as the count of the empty query and sets out_of_order and
\* stats_valid dirty, in the attributes and in the catalog; when resort is
\* asked for on an id-ordered table the rows so numbered are then renumbered
\* by the sort and out_of_order ends cleared.  Rejected arguments raise
\* before any statement.
C10_InsertMany ==
    [][last'.op = "insert_many" =>
          IF InsertRejected(mem, last'.arg)
          THEN last'.err = "value" /\ UNCHANGED <<db, wk, mem>>
          ELSE last'.err = "none" =>
                  /\ InsertCounted(last'.arg.data)
                  /\ IF last'.arg.resort /\ mem.id_ordered
                     THEN InsertResorted(last'.arg.data)
                     ELSE InsertAppended(last'.arg.data)]_vars

\* the methods that change rows and with them the persisted flags and total
DataWrites == {"delete", "upsert", "insert_many", "copy_from"}

\* the attributes _out_of_order and _stats_valid are the committed catalog row
FlagsAgree(m, d) == m.out_of_order = d.meta.out_of_order /\ m.stats_valid = d.meta.stats_valid

\* C11: a call of delete, upsert, insert_many or copy_from, made with
\* nothing pending and with attributes that agree with the catalog, leaves
\* attributes that agree with the committed catalog whether it returns or
\* raises, and commits a change of the search rows only together with
\* stats_valid = false and the total of the new rows.
C11_FlagsCommittedWithData ==
    [][(last'.op \in DataWrites /\ wk = db /\ FlagsAgree(mem, db)) =>
          /\ FlagsAgree(mem', db')
          /\ SRows(db') # SRows(db) =>
                /\ ~db'.meta.stats_valid
                /\ db'.counts[QAll] = db.counts[QAll] + Len(SRows(db')) - Len(SRows(db))]_vars

\* C12: a public method called with nothing pending on the connection and
\* with its default commit setting has, when it returns normally, committed
\* every statement it issued: the connection's view is the committed
\* database.  set_sort is one of these methods, with and without a resort.
C12_ReturnsCommitted ==
    [][(wk = db /\ last'.err = "none") => wk' = db']_vars

\* C13: a statement the engine fails leaves nothing pending and nothing
\* committed: the connection is back at the committed state of before the
\* call, whatever was pending.  A statement that succeeds takes effect on
\* the connection, and is committed (with all that was pending) exactly
\* when commit was asked for.  A query that is not a Composable raises
\* TypeError and touches nothing.
C13_ExecuteRollsBack ==
    [][last'.op = "_execute" =>
          /\ ~last'.arg.composable <=> last'.err = "type"
          /\ last'.err = "type" => UNCHANGED <<db, wk, mem>>
          /\ last'.err = "db" => (db' = db /\ wk' = db)
          /\ last'.err = "none" =>
                /\ wk' = StatementEffect(wk, last'.arg.st)
                /\ db' = IF last'.arg.commit THEN wk' ELSE db]_vars

\* a failed statement has rolled back the work that was pending before it
C13_RolledBack ==
    /\ last.op = "_execute"
    /\ last.err = "db"
    /\ last.arg.pending
    /\ wk = db

\* some key at any depth that names a column names neither id nor a column
\* of the search table
RECURSIVE HasUnknownKey(_, _)

ItemUnknown(m, it) ==
    IF it.name \in DollarKeys
    THEN it.vt = "clauses" /\ \E i \in 1..Len(it.sub) : HasUnknownKey(m, it.sub[i])
    ELSE \/ it.name \notin {"id"} \cup m.scols
         \/ it.vt = "ops" /\ HasUnknownKey(m, it.sub[1])

HasUnknownKey(m, D) == \E i \in 1..Len(D) : ItemUnknown(m, D[i])

\* C14: the translation of a query in which some column key (at the top,
\* inside $and / $or at any depth, or as the head of a dotted key) is not
\* id or a column of the search table raises (ValueError, or KeyError from
\* the lookup of the column's type) and returns no statement.
C14_UnknownKeyRaises ==
    (last.op = "_parse_dict" /\ HasUnknownKey(mem, last.arg.q)) =>
        /\ last.err \in {"value", "key"}
        /\ last.arg.out.isnone /\ last.arg.out.text = ""

\* an unknown key two levels down, beside a known one, was refused
C14_NestedUnknown ==
    /\ last.op = "_parse_dict"
    /\ last.arg.q = <<Clauses("$and", <<<<Clauses("$or", <<<<Lit("k", <<>>, 1)>>, <<Lit("zz", <<1>>, 1)>>>>)>>>>)>>
    /\ last.err = "value"

\* the query with its literals replaced: every literal by 1 and every list
\* by [1]; or, keeping what the statement text depends on, None under a
\* column key kept, the truth value under $exists kept, the length of the
\* list under $notcontains kept
RECURSIVE EraseDict(_, _)

EraseItem(it, keep) ==
    CASE it.vt = "lit" ->
           [it EXCEPT !.lit = IF ~keep THEN 1
                              ELSE IF it.name = "$exists" THEN (IF Truthy(it) THEN 1 ELSE 0)
                              ELSE IF it.name \notin DollarKeys /\ it.lit = Nil THEN Nil
                              ELSE 1]
      [] it.vt = "list" ->
           [it EXCEPT !.list = IF keep /\ it.name = "$notcontains" THEN [i \in 1..Len(it.list) |-> 1]
                               ELSE IF keep /\ it.name = "$exists" /\ it.list = <<>> THEN <<>>
                               ELSE <<1>>]
      [] OTHER -> [it EXCEPT !.sub = [i \in 1..Len(it.sub) |-> EraseDict(it.sub[i], keep)]]

EraseDict(D, keep) == [i \in 1..Len(D) |-> EraseItem(D[i], keep)]

\* the translation of the last query with its literals replaced
Erased(keep) == _parse_dict(mem, EraseDict(last.arg.q, keep), NoOuter)

\* C15 as stated: two queries with the same keys and operators that differ
\* only in their literal values compile to the same statement text.
C15_SameTextForAllLiterals ==
    (last.op = "_parse_dict" /\ last.err = "none" /\ Erased(FALSE).err = "none") =>
        last.arg.out.text = Erased(FALSE).text

\* C15: the statement text (and whether the translation raises) depends
\* only on the keys and operators, on whether the value of a column key is
\* None, on the truth value given to $exists and on the length of the list
\* given to $notcontains: no other literal reaches the text, and every
\* other literal is one bound value.
C15_TextFromShape ==
    last.op = "_parse_dict" =>
        /\ last.arg.out.err = Erased(TRUE).err
        /\ last.arg.out.isnone = Erased(TRUE).isnone
        /\ last.arg.out.text = Erased(TRUE).text
        /\ Len(last.arg.out.vals) = Len(Erased(TRUE).vals)

\* a literal 2 compiled to a placeholder and bound
C15_Bound ==
    /\ last.op = "_parse_dict"
    /\ last.arg.q = <<Clauses("$or", <<<<Lit("k", <<>>, 1)>>, <<Ops("k", <<>>, <<Lit("$lte", <<>>, 2)>>)>>>>)>>
    /\ last.arg.out.text = "(\"k\" = %s OR \"k\" <= %s)"
    /\ last.arg.out.vals = <<Bound("plain", "lit", 1, <<>>), Bound("plain", "lit", 2, <<>>)>>

\* the whole type string is in the base whitelist or is matched from its
\* first to its last character by a parameterized pattern
TypeAllowedInFull(typ) ==
    \/ Lower(typ) \in types_whitelist
    \/ \E j \in 1..Len(param_types_whitelist) : Lower(typ) \in param_types_whitelist[j].lang

\* C16: add_column issues its ALTER TABLE ... ADD COLUMN with a type string
\* only if the whole string is allowed; a string that begins with an
\* allowed type and goes on with other text is rejected before any DDL.
C16_WholeTypeChecked ==
    [][(last'.op = "add_column" /\ last'.arg.ddl) => TypeAllowedInFull(last'.arg.typ)]_vars

\* C17: drop_column of a column of the sort order, or of a column that an
\* index recorded in meta_indexes refers to, raises and changes nothing.
C17_DependentColumnKept ==
    [][(/\ last'.op = "drop_column"
        /\ \/ last'.arg.name \in SortKeys(mem)
           \/ wk.cat_ix /\ last'.arg.name = "k") =>
          /\ last'.err = "value"
          /\ UNCHANGED <<db, wk, mem>>]_vars

\* C18: add_column(name, type) followed by drop_column(name), both
\* returning normally, leaves the search columns, the extras columns and the
\* column types as they were before the add_column.
C18_AddThenDropRestores ==
    [][(/\ last.op = "add_column" /\ last.err = "none"
        /\ last'.op = "drop_column" /\ last'.err = "none"
        /\ last'.arg.name = last.arg.name) =>
          Columns(mem') = last.arg.before]_vars

\* the live search table carries its index exactly when meta_indexes
\* records one
IndexesAsCatalogued(d) == (d.tab["s"].ix = "") = d.cat_ix

\* C19: from a committed state in which the live table carries the
\* catalogued indexes, a reload that returns normally (reindex true or
\* false) commits such a state again; so does restore_indexes after
\* drop_indexes; and so does create_index, which either adds index and
\* catalog row together or raises with nothing changed.
C19_IndexesMatchCatalog ==
    [][/\ (IndexesAsCatalogued(db) /\ wk = db /\ last'.op = "reload" /\ last'.err = "none") =>
             IndexesAsCatalogued(db')
       /\ (/\ wk = db /\ last.op = "drop_indexes" /\ last.err = "none"
           /\ last'.op = "restore_indexes" /\ last'.err = "none") =>
             IndexesAsCatalogued(db')
       /\ (IndexesAsCatalogued(db) /\ wk = db /\ last'.op = "create_index") =>
             /\ IndexesAsCatalogued(db')
             /\ last'.err = "value" => UNCHANGED <<db, wk>>]_vars

\* the backup number the loop of _swap_in_tmp reaches from a state
ChosenBackup(w, m) == NextBackup(BackupNumber(Ctx(w, w, m, 0, TRUE), "s", 1), m.extra, "x").ret

\* C20: whenever reload is called, the first call or a later one of the
\* same object, the backup number its swap chooses names no table that
\* exists: neither {search}_old{N} nor {extras}_old{N}.
C20_BackupNumberFree ==
    [][last'.op = "reload" =>
          /\ ~OldExists(wk, "s", ChosenBackup(wk, mem))
          /\ mem.extra => ~OldExists(wk, "x", ChosenBackup(wk, mem))]_vars

\* C21: resort() with its default arguments, called with nothing pending on
\* a table whose catalog row says out_of_order = false, executes no
\* statement and leaves the rows and ids of both tables, their primary
\* keys, the catalog, the attributes and the open transaction as they were.
C21_ResortIsNoOp ==
    [][(last'.op = "resort" /\ wk = db /\ ~db.meta.out_of_order) =>
          /\ last'.err = "none" /\ ~last'.inj
          /\ wk' = wk /\ db' = db /\ mem' = mem]_vars

\* C23: count(query) for a non-empty query whose count is not cached
\* returns the number of rows the scan finds and leaves that number in the
\* counts table, where the next quick_count(query) reads it; count of the
\* empty query returns the attribute total and executes nothing.
C23_CountIsCached ==
    [][(last'.op = "count" /\ last'.err = "none") =>
          IF last'.arg.q = QAll
          THEN last'.arg.ret = mem.total /\ wk' = wk
          ELSE wk.counts[last'.arg.q] = NoCount =>
                  /\ last'.arg.ret = SlowCount(wk, last'.arg.q)
                  /\ wk'.counts[last'.arg.q] = last'.arg.ret]_vars

\* C22: a search with a limit and an info dictionary, for a query whose
\* count is not cached and that more rows match than the table's
\* count_cutoff, reports exact_count = false, whatever limit and offset.
C22_InexactAboveCutoff ==
    [][(/\ last'.op = "search" /\ last'.err = "none"
        /\ (last'.arg.q \notin CountKeys \/ wk.counts[last'.arg.q] = NoCount)
        /\ MatchCount(wk, last'.arg.q) > mem.count_cutoff) =>
          ~last'.arg.info.exact_count]_vars

\* C24: distinct(column, query) returns, for the empty query and for every
\* query with a value to bind, the values that column takes in the rows
\* matching the query, each once and in ascending order.
C24_DistinctValues ==
    [][(last'.op = "distinct" /\ ~last'.inj) =>
          /\ last'.err = "none"
          /\ last'.arg.ret = DistinctValues(RowsMatching(SRows(wk), last'.arg.q), last'.arg.col)]_vars

\* C28: random on a table that has rows draws its ids from 1 .. (greatest
\* id in the table), so that it raises nothing but the RuntimeError of the
\* loop, and that one only after maxtries draws that all missed.
C28_RandomDrawsAllIds ==
    [][(last'.op = "random" /\ ~last'.inj /\ SRows(wk) # <<>>) =>
          /\ last'.arg.maxid = SetMax(Ids(wk.tab["s"]))
          /\ last'.err \in {"none", "runtime"}
          /\ last'.err = "runtime" => last'.arg.tries = maxtries]_vars

\* the names a list or string projection asks for
Requested(P) == {P.list[i] : i \in 1..Len(P.list)}

\* the names in a resolved tuple
Listed(t) == {t[i] : i \in 1..Len(t)}

\* C25: for a list of names or a single name: a name that is neither id nor
\* a column of either table raises; otherwise, if a column of the extras
\* table is asked for, id is the first element of the search tuple and the
\* id-offset is 1 unless id was asked for (then 0); if none is asked for,
\* id is in the search tuple only when asked for and the id-offset is 0.
C25_ListProjection ==
    (last.op = "_parse_projection" /\ last.arg.P.kind \in {"list", "string"} /\ last.arg.P.list # <<>>) =>
        IF ~(Requested(last.arg.P) \subseteq {"id"} \cup mem.scols \cup mem.ecols)
        THEN last.err # "none"
        ELSE /\ last.err = "none"
             /\ IF Requested(last.arg.P) \cap mem.ecols # {}
                THEN /\ Head(last.arg.out.search) = "id"
                     /\ last.arg.out.id_offset = IF "id" \in Requested(last.arg.P) THEN 0 ELSE 1
                ELSE /\ "id" \in Listed(last.arg.out.search) <=> "id" \in Requested(last.arg.P)
                     /\ last.arg.out.id_offset = 0

\* a list that asks for a column of the extras table and not for id was
\* resolved with id first and the id-offset 1, and another list that asks
\* for id as well with the id-offset 0
C25_IdForcedByExtras ==
    /\ last.op = "_parse_projection" /\ last.err = "none"
    /\ last.arg.P.kind = "list" /\ mem.extra
    /\ Requested(last.arg.P) = {"k", "e"}
    /\ last.arg.out.search = <<"id", "k">> /\ last.arg.out.extra = <<"e">>
    /\ last.arg.out.id_offset = 1

\* C26: a dictionary whose values are all true resolves to the named
\* columns, those of the search table in the search tuple and those of the
\* extras table in the extras tuple; one whose values are all false
\* resolves to every column of both tables but the named ones; one with
\* true and false values raises.
C26_MapProjection ==
    (last.op = "_parse_projection" /\ last.arg.P.kind = "map" /\ DOMAIN last.arg.P.map # {}) =>
        IF Cardinality(MapValues(last.arg.P.map)) > 1 THEN last.err # "none"
        ELSE (DOMAIN last.arg.P.map \subseteq {"id"} \cup mem.scols \cup mem.ecols) =>
                /\ last.err = "none"
                /\ Listed(last.arg.out.search) \ {"id"} =
                      IF TRUE \in MapValues(last.arg.P.map) THEN mem.scols \cap DOMAIN last.arg.P.map
                      ELSE mem.scols \ DOMAIN last.arg.P.map
                /\ Listed(last.arg.out.extra) =
                      IF TRUE \in MapValues(last.arg.P.map) THEN mem.ecols \cap DOMAIN last.arg.P.map
                      ELSE mem.ecols \ DOMAIN last.arg.P.map

\* C27: the projection 0, by itself and in lookup, resolves to the one
\* column that the table declares as its label column, and raises exactly
\* when the table declares none.
C27_LabelProjection ==
    (last.op \in {"_parse_projection", "lookup"} /\ ~last.inj /\ last.arg.P = CodeProjection("0")) =>
        IF mem.label_col = "none" THEN last.err # "none"
        ELSE /\ last.err = "none"
             /\ last.arg.out.search = <<mem.label_col>>
             /\ last.arg.out.extra = <<>>

\* the literals bound to the placeholders, in the order of the list
BoundLiterals(vals) == [i \in 1..Len(vals) |-> vals[i].lit]

\* C29 as stated: the dictionary {"k": 2, "e": 6} of two search columns is
\* translated into the conjunction of the two equalities with the values
\* [2, 6], the order of the columns in the table, in whatever order the
\* dictionary yields its keys.
C29_DeclarationOrder ==
    (last.op = "_parse_dict" /\ last.arg.q \in TwoEqualities /\ {"k", "e"} \subseteq mem.scols) =>
        /\ last.err = "none"
        /\ last.arg.out.text = "\"k\" = %s AND \"e\" = %s"
        /\ BoundLiterals(last.arg.out.vals) = <<2, 6>>

\* C29 as the code has it: the two equalities and their values come in the
\* order in which the dictionary yields its keys, the i-th value being the
\* value of the i-th equality.
C29_IterationOrder ==
    (last.op = "_parse_dict" /\ last.arg.q \in TwoEqualities /\ {"k", "e"} \subseteq mem.scols) =>
        /\ last.err = "none"
        /\ last.arg.out.text = Identifier(last.arg.q[1].name) \o " = %s AND " \o Identifier(last.arg.q[2].name) \o " = %s"
        /\ BoundLiterals(last.arg.out.vals) = <<last.arg.q[1].lit, last.arg.q[2].lit>>

\* the dictionary that yields e before k was translated with the values
\* [6, 2]
C29_OtherOrder ==
    /\ last.op = "_parse_dict" /\ last.err = "none"
    /\ last.arg.q = <<Lit("e", <<>>, 6), Lit("k", <<>>, 2)>>
    /\ last.arg.out.text = "\"e\" = %s AND \"k\" = %s"
    /\ BoundLiterals(last.arg.out.vals) = <<6, 2>>

\* the rows in the table whose bucketed column is split
BucketedRows == db.tab["s"].rows

\* C30: the bucket queries made from a list of break points are pairwise
\* disjoint and cover every value of the column: every row of the table
\* whose column is not NULL satisfies exactly one of them, so that the
\* bucket counts add up to the number of those rows
C30_BucketsPartition ==
    (last.op = "_split_buckets" /\ last.err = "none") =>
        \A i \in 1..Len(BucketedRows) :
            BucketedRows[i].k # Nil =>
                Cardinality({j \in 1..Len(last.arg.queries) : Holds(last.arg.queries[j], BucketedRows[i])}) = 1

\* C33: whenever a search with a limit reports exact_count = true, the
\* number it reports is the number of rows matching the query, whatever
\* the limit and the offset and whether or not the count was cached; and
\* the start it reports is 0 or lies below that number.
C33_ExactCountIsRight ==
    [][(last'.op = "search" /\ last'.err = "none") =>
          /\ last'.arg.info.exact_count => last'.arg.info.number = MatchCount(wk, last'.arg.q)
          /\ 0 <= last'.arg.info.start
          /\ last'.arg.info.start < last'.arg.info.number \/ last'.arg.info.start = 0]_vars

\* C40: when add_column or drop_column raises (type not allowed, column
\* already there, extra=True without extras table, unknown column, sort
\* column, or a statement the engine fails), the search columns, the extras
\* columns and the column types of the table object are as before the call.
C40_FailedSchemaChangeKeepsColumns ==
    [][(last'.op \in {"add_column", "drop_column"} /\ last'.err # "none") =>
          Columns(mem') = Columns(mem)]_vars

\* C38: create_extra_table changes the meta_tables row of its own table
\* only; and when it rejects its input (extras table already there,
\* unknown column, sort column, indexed column) the attributes of the table
\* object and the database are as before and no statement is left pending.
C38_ExtrasTouchOwnTableOnly ==
    [][(last'.op = "create_extra_table" /\ wk = db) =>
          /\ db'.other = db.other /\ wk'.other = wk.other
          /\ (last'.err = "value" /\ ~last'.inj) => (mem' = mem /\ db' = db /\ wk' = db')]_vars

\* C34: after calls of a single writer that all returned normally, the
\* total kept in memory (the answer of count({}) and the base of new ids)
\* is the number of rows of the live search table.
C34_TotalIsRowCount ==
    last.clean => (mem.total = Len(SRows(db)) /\ mem.total = Len(SRows(wk)))

\* the greatest id in a table, 0 for the empty table
MaxId(t) == IF t.rows = <<>> THEN 0 ELSE SetMax(Ids(t))

\* the number of rows whose id is at most m
NotAbove(rows, m) == Len(SelectSeq(rows, LAMBDA r : r.id <= m))

\* C35: every id that insert_many, upsert or copy_from (without ids in the
\* file) gives to a new row is greater than every id in the search table,
\* also after deletions that no re-sort followed: no row is added at or
\* below the greatest id there was, and the ids stay unique.
C35_NewIdsAboveOld ==
    [][(/\ last'.op \in {"insert_many", "upsert", "copy_from"}
        /\ last'.err = "none"
        /\ last'.op = "copy_from" => ~last'.arg.ids
        /\ ~mem.id_ordered /\ UniqueIds(wk.tab["s"])) =>
          /\ NotAbove(SRows(wk'), MaxId(wk.tab["s"])) = Len(SRows(wk))
          /\ UniqueIds(wk'.tab["s"])]_vars

\* both writers have returned or raised
WritersDone == \A w \in Writers : last.pc[w] \in {"done", "raised"}

\* C32: when two writers on connections of their own insert rows at the
\* same time, each numbering its rows from its own total, no committed
\* state has two rows of the search table with the same id, and at least
\* one of the two calls ends in an error.
C32_WritersNeverShareIds ==
    /\ UniqueIds(db.tab["s"])
    /\ WritersDone => \E w \in Writers : last.errs[w] # "none"

\* the stat names of the grouping, each once, and a counts row for every
\* value of k that occurs
StatsWhole(d) ==
    /\ \A s \in {"total", "avg", "min", "max"} : Len(SelectSeq(d.stats, LAMBDA x : x = s)) = 1
    /\ \A q \in CountKeys : (q.col = "k" /\ SlowCount(d, q) > 0) => d.counts[q] # NoCount

\* C31: in every committed state the grouping has no entry in the stats
\* table, or its 'total' entry with all its other entries and its count
\* rows, none of them twice; add_stats for a grouping whose 'total' entry
\* is there changes nothing.
C31_StatsAllOrNothing ==
    [][/\ db'.stats = <<>> \/ StatsWhole(db')
       /\ (last'.op = "add_stats" /\ HasStat(db, "total")) => db' = db]_vars

\* the files of a reload fit the table: an extras file exactly when the
\* table has an extras table, with as many lines as the search file
WellFormedFiles(arg, m) == arg.ex # "short" /\ (arg.ex = "full") = m.extra

\* C37: a reload with well-formed files and the default restat, started
\* with nothing pending and not failed by the engine, returns normally with
\* the new load under the live names: each table its swap renames has the
\* staging table the reload made.
C37_ReloadCompletes ==
    [][(/\ last'.op = "reload" /\ last'.arg.restat /\ ~last'.inj
        /\ WellFormedFiles(last'.arg, mem) /\ wk = db) =>
          /\ last'.err = "none"
          /\ db'.tab["s"].gen = db.tab["s"].gen + 1]_vars

\* the record of each row of the table: id, k, and e from the table that
\* holds it
Records(w, hasx) ==
    {Row(r.id, r.k, IF hasx THEN (CHOOSE x \in {XRows(w)[j] : j \in 1..Len(XRows(w))} : x.id = r.id).e ELSE r.e) :
        r \in {SRows(w)[i] : i \in 1..Len(SRows(w))}}

\* C36: a rewrite that returns normally leaves the table holding the image
\* of every record that matched the query and every record that did not
\* match as it was; with the identity the records are the same as before.
C36_RewriteReplacesMatching ==
    [][(last'.op = "rewrite" /\ last'.err = "none") =>
          /\ Len(SRows(db')) = Len(SRows(db))
          /\ Records(db', mem.extra) =
                {IF Matches(last'.arg.q, r) THEN Apply(last'.arg.func, r) ELSE r : r \in Records(db, mem.extra)}]_vars

\* the tables create_table makes for a specification of extra_columns
PartsFor(extraSpec) == IF extraSpec = "none" THEN TableParts \ {"extras"} ELSE TableParts

\* nothing of the name exists, in the database or in the object
NothingOfName(d, m) == d.tables = {} /\ ~d.meta /\ ~m.listed

\* C39: a create_table that raises, called when nothing of the name
\* existed, leaves no table committed, no catalog row and no registry
\* entry; one that returns normally leaves all its tables, the catalog row
\* and the registry entry, and a drop_table that follows it and returns
\* normally removes them all.
C39_CreateTableIsAtomic ==
    [][/\ (last'.op = "create_table" /\ last'.err # "none" /\ NothingOfName(db, mem) /\ wk = db) =>
             NothingOfName(db', mem')
       /\ (last'.op = "create_table" /\ last'.err = "none") =>
             (db'.tables = PartsFor(last'.arg.extras) /\ db'.meta /\ mem'.listed)
       /\ (last.op = "create_table" /\ last.err = "none" /\ last'.op = "drop_table" /\ last'.err = "none") =>
             NothingOfName(db', mem')]_vars

====
